-------------------------- MODULE SessionLifecycle --------------------------
(***************************************************************************)
(* The life of sessions and of their git worktrees: sessions.create,        *)
(* archive, delete and import as the dispatcher runs them, one step per     *)
(* await (la-daemon/dispatcher.rs, la-core/manager.rs); the output pump's   *)
(* state machine; worktree provisioning, cleanup and the TTL sweep          *)
(* (la-core/worktree); the sessions and projects rows (la-storage); and a   *)
(* daemon that crashes at any step and starts again.                        *)
(*                                                                          *)
(* Sessions are ids; a session's worktree directory and branch are named    *)
(* after its id, so they belong to it alone.  Git is external: a command    *)
(* succeeds, fails, or fails although it did its work (a 30 s timeout does  *)
(* not kill the child).  Every SQLite statement may fail.  Imports are of   *)
(* one external session, and everything is in one project.                  *)
(***************************************************************************)
EXTENDS Naturals, FiniteSets

CONSTANTS
  Sessions,    \* session ids
  Requests,    \* clients' requests in progress at once
  None,        \* no row, no session
  MaxCrashes   \* bound: crashes of the daemon

ASSUME LifecycleAssumption == None \notin Sessions /\ MaxCrashes \in Nat

VARIABLES
  up,        \* the daemon runs
  crashes,   \* crashes so far
  orphans,   \* history: children a crash left running
  project,   \* the projects row of the repository exists
  row,       \* the sessions row, or None
  dir,       \* the worktree directory: "none", "clean", "dirty"
  branch,    \* its branch: "none", "base" (nothing beyond the base), "ahead"
  child,     \* the PTY child: "none", "alive", "dead"
  mem,       \* SessionRuntime.state of a session with a pump
  pump,      \* its output pump: "off", "reading", "exited"
  req,       \* what each request is doing
  sweep,     \* the rows the sweep in progress has still to visit
  early      \* sessions whose archive or delete was let in while their spawn was
             \* between the row and the registry

rowVars == <<project, row>>
gitVars == <<dir, branch>>
procVars == <<child, mem, pump>>
daemonVars == <<up, crashes, orphans>>
vars == <<daemonVars, rowVars, gitVars, procVars, req, sweep, early>>

Idle == [at |-> "idle", s |-> None, wt |-> FALSE, path |-> FALSE]
Ats == {"idle", "lookup", "project", "provision", "row", "spawn", "clear", "pid",
        "register", "hook", "snapshot", "archive", "cleanup", "keep", "drop",
        "delete", "find", "findProject", "importProject", "import"}
States == {"starting", "running", "waiting", "exited", "archived"}
Active == {"starting", "running", "waiting"}

\* A sessions row: does it name the worktree's path and branch, has it a pid, and when
\* was it archived?
Rows == [state : States, path : BOOLEAN, branch : BOOLEAN, pid : BOOLEAN,
         archived : {"no", "recent", "expired"}, hook : BOOLEAN, origin : {"user", "import"}]

ASSUME RowAssumption == None \notin Rows

\* The registry of live sessions: inserted after the spawn, removed by the pump.
Registry == {s \in Sessions : pump[s] # "off"}

\* The request that creates s has inserted its row, and not yet its runtime.
Spawning(s) == \E r \in Requests :
  req[r].s = s /\ req[r].at \in {"spawn", "clear", "pid", "register"}

NewRow(wt, state, origin) ==
  [state |-> state, path |-> wt, branch |-> wt, pid |-> FALSE,
   archived |-> "no", hook |-> FALSE, origin |-> origin]

\* An id nobody has used: no row, no files, no request works on it.
Fresh(s) ==
  /\ row[s] = None /\ dir[s] = "none" /\ branch[s] = "none" /\ child[s] = "none"
  /\ s \notin sweep
  /\ \A r \in Requests : req[r].s # s

Init ==
  /\ up = TRUE /\ crashes = 0 /\ orphans = {}
  /\ project = FALSE
  /\ row = [s \in Sessions |-> None]
  /\ dir = [s \in Sessions |-> "none"] /\ branch = [s \in Sessions |-> "none"]
  /\ child = [s \in Sessions |-> "none"]
  /\ mem = [s \in Sessions |-> "exited"] /\ pump = [s \in Sessions |-> "off"]
  /\ req = [r \in Requests |-> Idle]
  /\ sweep = {} /\ early = {}

-----------------------------------------------------------------------------
(* Git and SQLite *)

\* run_git failed, or gave up after 30 s and left git running: what was to go may be gone.
Unsure(old) == {old, "none"}

\* git worktree add -b: directory and branch together, or whatever part of them the
\* best-effort rollback of a failed one leaves.
WorktreeAdd(s, ok) ==
  IF ok
  THEN dir' = [dir EXCEPT ![s] = "clean"] /\ branch' = [branch EXCEPT ![s] = "base"]
  ELSE \E d \in {"none", "clean"}, b \in {"none", "base"} :
         dir' = [dir EXCEPT ![s] = d] /\ branch' = [branch EXCEPT ![s] = b]

\* worktree_remove, as its outcomes.  Gone already counts as removed; a dirty tree is
\* refused without --force, a busy one retried with it.
WorktreeRemove(s) ==
  {[err |-> FALSE, dir |-> "none"]} \cup {[err |-> TRUE, dir |-> d] : d \in Unsure(dir[s])}

\* branch_delete, with -D.
BranchDelete(s) ==
  {[err |-> FALSE, branch |-> "none"]} \cup {[err |-> TRUE, branch |-> b] : b \in Unsure(branch[s])}

\* branch_has_commits_beyond
HasCommitsBeyond(s) == branch[s] = "ahead"

\* Mutant: the branch always goes.
MutCleanup(s, mode) ==
  {[err |-> TRUE, dir |-> d, branch |-> branch[s]] : d \in Unsure(dir[s])} \cup
  {[err |-> FALSE, dir |-> "none", branch |-> "none"]}

\* WorktreeManager::cleanup, as its outcomes [err, dir, branch]: the directory goes
\* first, then the branch, unless the mode keeps one that is ahead of its base or, when
\* rev-list fails, may be.
Cleanup(s, mode) ==
  LET failed == {[err |-> TRUE, dir |-> o.dir, branch |-> branch[s]] : o \in {w \in WorktreeRemove(s) : w.err}}
      kept == {[err |-> FALSE, dir |-> "none", branch |-> branch[s]]}
      dropped == {[err |-> o.err, dir |-> "none", branch |-> o.branch] : o \in BranchDelete(s)}
  IN failed \cup (IF mode = "Force" THEN dropped ELSE kept \cup IF HasCommitsBeyond(s) THEN {} ELSE dropped)

\* rollback_worktree: cleanup with Force whose error is only logged.
Rollback(s) ==
  \E o \in Cleanup(s, "Force") :
    dir' = [dir EXCEPT ![s] = o.dir] /\ branch' = [branch EXCEPT ![s] = o.branch]

\* SessionsRepo::clear_worktree; the statement finds no row to change or may fail.
ClearWorktree(s, keep) ==
  \/ /\ row[s] # None
     /\ row' = [row EXCEPT ![s].path = FALSE, ![s].branch = keep /\ @]
  \/ row' = row

\* SessionsRepo::update_state.
UpdateState(s, state) ==
  \/ row[s] # None /\ row' = [row EXCEPT ![s].state = state]
  \/ row' = row

-----------------------------------------------------------------------------
(* sessions.create: handle_sessions_create, ensure_project, spawn_with_options *)

Goto(r, at) == req' = [req EXCEPT ![r].at = at]
Done(r) == req' = [req EXCEPT ![r] = Idle]

\* A known backend that a probe does not call uninstalled; otherwise the request
\* ends here with an error.
CreateRequest(r, s, wt) ==
  /\ up /\ req[r] = Idle /\ Fresh(s)
  /\ req' = [req EXCEPT ![r] = [at |-> "lookup", s |-> s, wt |-> wt, path |-> FALSE]]
  /\ UNCHANGED <<daemonVars, rowVars, gitVars, procVars, sweep, early>>

\* ensure_project: look the root path up; insert what is missing.  root_path is
\* UNIQUE, so the loser of two inserts fails.
EnsureProject(r, look, insert, next) ==
  /\ \/ req[r].at = look /\ Goto(r, IF project THEN next ELSE insert)
        /\ UNCHANGED project
     \/ req[r].at = look /\ Done(r) /\ UNCHANGED project
     \/ /\ req[r].at = insert
        /\ \/ ~project /\ project' = TRUE /\ Goto(r, next)
           \/ Done(r) /\ UNCHANGED project
  /\ UNCHANGED <<daemonVars, row, gitVars, procVars, sweep, early>>

\* resolve_base_branch finds no branch or no repository, and nothing was made.
NoBaseBranch(r) == req[r].wt /\ Done(r) /\ UNCHANGED gitVars

\* WorktreeManager::create: names after the session id, so the path is free.
Create(r) ==
  /\ req[r].wt
  /\ \E ok \in BOOLEAN : WorktreeAdd(req[r].s, ok) /\ IF ok THEN Goto(r, "row") ELSE Done(r)

\* Resolve the base branch and create the worktree; a session without one goes on.
Provision(r) ==
  /\ req[r].at = "provision"
  /\ \/ ~req[r].wt /\ Goto(r, "row") /\ UNCHANGED gitVars
     \/ NoBaseBranch(r)
     \/ Create(r)
  /\ UNCHANGED <<daemonVars, rowVars, procVars, sweep, early>>

\* spawn_spec and the insert of the row; either may fail, and rolls the worktree back.
InsertRow(r) ==
  LET s == req[r].s IN
  /\ req[r].at = "row"
  /\ \/ /\ row' = [row EXCEPT ![s] = NewRow(req[r].wt, "starting", "user")]
        /\ Goto(r, "spawn") /\ UNCHANGED gitVars
     \/ Done(r) /\ (IF req[r].wt THEN Rollback(s) ELSE UNCHANGED gitVars) /\ UNCHANGED row
  /\ UNCHANGED <<daemonVars, project, procVars, sweep, early>>

\* The PTY spawn; a failure rolls back, and leaves the row to the reaper.
Spawn(r) ==
  LET s == req[r].s IN
  /\ req[r].at = "spawn"
  /\ \/ child' = [child EXCEPT ![s] = "alive"] /\ Goto(r, "pid") /\ UNCHANGED gitVars
     \/ /\ IF req[r].wt THEN Rollback(s) /\ Goto(r, "clear") ELSE Done(r) /\ UNCHANGED gitVars
        /\ UNCHANGED child
  /\ UNCHANGED <<daemonVars, rowVars, mem, pump, sweep, early>>

\* ... and takes the columns off the row whether or not the rollback worked.
ClearFailed(r) ==
  /\ req[r].at = "clear" /\ Done(r)
  /\ ClearWorktree(req[r].s, FALSE)
  /\ UNCHANGED <<daemonVars, project, gitVars, procVars, sweep, early>>

UpdatePid(r) ==
  LET s == req[r].s IN
  /\ req[r].at = "pid" /\ Goto(r, "register")
  /\ row' = row \/ (row[s] # None /\ row' = [row EXCEPT ![s].pid = TRUE])
  /\ UNCHANGED <<daemonVars, project, gitVars, procVars, sweep, early>>

\* The runtime goes into the registry and the pump starts.
Register(r) ==
  LET s == req[r].s IN
  /\ req[r].at = "register" /\ Goto(r, "hook")
  /\ mem' = [mem EXCEPT ![s] = "starting"] /\ pump' = [pump EXCEPT ![s] = "reading"]
  /\ UNCHANGED <<daemonVars, rowVars, gitVars, child, sweep, early>>

\* set_post_create_hook_status
NoteHook(s) == row[s] # None /\ row' = [row EXCEPT ![s].hook = TRUE]

\* The advisory post-create hook of a worktree: whatever comes of it, its timeout
\* included, is noted on the row and changes nothing else.
Hook(r) ==
  /\ req[r].at = "hook" /\ Done(r)
  /\ (req[r].wt /\ NoteHook(req[r].s)) \/ row' = row
  /\ UNCHANGED <<daemonVars, project, gitVars, procVars, sweep, early>>

CreateSteps(r) ==
  \/ EnsureProject(r, "lookup", "project", "provision")
  \/ Provision(r) \/ InsertRow(r) \/ Spawn(r) \/ ClearFailed(r)
  \/ UpdatePid(r) \/ Register(r) \/ Hook(r)

-----------------------------------------------------------------------------
(* sessions.archive, sessions.delete, sessions.import *)

\* Both refuse a session that is in the registry; nothing holds it out of the
\* registry afterwards.
MutArchiveRequest(r, s, op) ==
  /\ up /\ req[r] = Idle /\ row[s] # None
  /\ req' = [req EXCEPT ![r] = [Idle EXCEPT !.at = op, !.s = s]]
  /\ early' = IF Spawning(s) THEN early \cup {s} ELSE early
  /\ UNCHANGED <<daemonVars, rowVars, gitVars, procVars, sweep>>

ArchiveRequest(r, s, op) ==
  /\ up /\ req[r] = Idle /\ row[s] # None
  /\ s \notin Registry
  /\ req' = [req EXCEPT ![r] = [Idle EXCEPT !.at = op, !.s = s]]
  /\ early' = IF Spawning(s) THEN early \cup {s} ELSE early
  /\ UNCHANGED <<daemonVars, rowVars, gitVars, procVars, sweep>>

\* archive reads the row first, to know the worktree it is about to lose.
ArchiveSnapshot(r) ==
  LET s == req[r].s IN
  /\ req[r].at = "snapshot"
  /\ \/ req' = [req EXCEPT ![r].at = "archive", ![r].path = row[s] # None /\ row[s].path]
     \/ Done(r)
  /\ UNCHANGED <<daemonVars, rowVars, gitVars, procVars, sweep, early>>

ArchiveRow(r) ==
  LET s == req[r].s IN
  /\ req[r].at = "archive"
  /\ \/ /\ row[s] # None
        /\ row' = [row EXCEPT ![s].state = "archived", ![s].archived = "recent"]
        /\ IF req[r].path THEN Goto(r, "cleanup") ELSE Done(r)
     \/ Done(r) /\ UNCHANGED row
  /\ UNCHANGED <<daemonVars, project, gitVars, procVars, sweep, early>>

\* The worktree goes; a failure leaves the row's columns for the sweep.
ArchiveCleanup(r) ==
  LET s == req[r].s IN
  /\ req[r].at = "cleanup"
  /\ \E o \in Cleanup(s, "KeepBranchIfDirty") :
       /\ dir' = [dir EXCEPT ![s] = o.dir] /\ branch' = [branch EXCEPT ![s] = o.branch]
       /\ IF o.err THEN Done(r) ELSE Goto(r, IF o.branch # "none" THEN "keep" ELSE "drop")
  /\ UNCHANGED <<daemonVars, rowVars, procVars, sweep, early>>

ArchiveClear(r) ==
  /\ req[r].at \in {"keep", "drop"} /\ Done(r)
  /\ ClearWorktree(req[r].s, req[r].at = "keep")
  /\ UNCHANGED <<daemonVars, project, gitVars, procVars, sweep, early>>

\* delete removes the row and nothing else.
DeleteRow(r) ==
  /\ req[r].at = "delete" /\ Done(r)
  /\ row' = row \/ row' = [row EXCEPT ![req[r].s] = None]
  /\ UNCHANGED <<daemonVars, project, gitVars, procVars, sweep, early>>

\* sessions.import: an external session already imported is answered from its row;
\* (backend_id, external_id) is UNIQUE, so the loser of two inserts fails.
Imported == {s \in Sessions : row[s] # None /\ row[s].origin = "import"}

ImportRequest(r, s) ==
  /\ up /\ req[r] = Idle /\ Fresh(s)
  /\ req' = [req EXCEPT ![r] = [Idle EXCEPT !.at = "find", !.s = s]]
  /\ UNCHANGED <<daemonVars, rowVars, gitVars, procVars, sweep, early>>

ImportFind(r) ==
  /\ req[r].at = "find"
  /\ \/ Imported = {} /\ Goto(r, "findProject")
     \/ Done(r)
  /\ UNCHANGED <<daemonVars, rowVars, gitVars, procVars, sweep, early>>

ImportRow(r) ==
  /\ req[r].at = "import" /\ Done(r)
  /\ \/ Imported = {} /\ row' = [row EXCEPT ![req[r].s] = NewRow(FALSE, "exited", "import")]
     \/ row' = row
  /\ UNCHANGED <<daemonVars, project, gitVars, procVars, sweep, early>>

OtherSteps(r) ==
  \/ ArchiveSnapshot(r) \/ ArchiveRow(r) \/ ArchiveCleanup(r) \/ ArchiveClear(r)
  \/ DeleteRow(r)
  \/ ImportFind(r) \/ EnsureProject(r, "findProject", "importProject", "import") \/ ImportRow(r)

-----------------------------------------------------------------------------
(* OutputPump, and what the child does *)

\* Output promotes a starting or waiting session, silence after the promotion
\* delay a starting one; silence after output makes a running one wait.
Promote(s) ==
  /\ pump[s] = "reading"
  /\ \/ mem[s] \in {"starting", "waiting"} /\ mem' = [mem EXCEPT ![s] = "running"]
     \/ mem[s] = "running" /\ mem' = [mem EXCEPT ![s] = "waiting"]
  /\ UpdateState(s, mem'[s])
  /\ UNCHANGED <<daemonVars, project, gitVars, child, pump, req, sweep, early>>

\* The reader is drained and the child is gone: the exit is persisted, then the
\* session leaves the registry.
PumpExit(s) ==
  /\ pump[s] = "reading" /\ child[s] = "dead"
  /\ mem' = [mem EXCEPT ![s] = "exited"] /\ pump' = [pump EXCEPT ![s] = "exited"]
  /\ UpdateState(s, "exited")
  /\ UNCHANGED <<daemonVars, project, gitVars, child, req, sweep, early>>

PumpRemove(s) ==
  /\ pump[s] = "exited" /\ pump' = [pump EXCEPT ![s] = "off"]
  /\ UNCHANGED <<daemonVars, rowVars, gitVars, child, mem, req, sweep, early>>

ChildExits(s) ==
  /\ child[s] = "alive" /\ child' = [child EXCEPT ![s] = "dead"]
  /\ UNCHANGED <<daemonVars, rowVars, gitVars, mem, pump, req, sweep, early>>

\* The agent, or its user, edits and commits in the worktree of a session that ran.
Work(s) ==
  /\ child[s] # "none" /\ dir[s] # "none" /\ branch[s] # "none"
  /\ \/ dir[s] # "dirty" /\ dir' = [dir EXCEPT ![s] = "dirty"] /\ UNCHANGED branch
     \/ branch[s] # "ahead" /\ branch' = [branch EXCEPT ![s] = "ahead"] /\ UNCHANGED dir
  /\ UNCHANGED <<daemonVars, rowVars, procVars, req, sweep, early>>

-----------------------------------------------------------------------------
(* The sweep, crashes and restarts *)

\* archived_at falls behind the TTL.
Age(s) ==
  /\ row[s] # None /\ row[s].archived = "recent"
  /\ row' = [row EXCEPT ![s].archived = "expired"]
  /\ UNCHANGED <<daemonVars, project, gitVars, procVars, req, sweep, early>>

MutExpired == {s \in Sessions :
  row[s] # None /\ row[s].state = "archived" /\ row[s].archived = "expired" /\ row[s].path}

Expired == {s \in Sessions : row[s] # None /\ row[s].archived = "expired" /\ row[s].path}

\* sweep_expired lists the rows, then takes them one by one as listed.
SweepStart ==
  /\ up /\ sweep = {} /\ Expired # {}
  /\ sweep' = Expired
  /\ UNCHANGED <<daemonVars, rowVars, gitVars, procVars, req, early>>

\* One row: without its project the columns are dropped (a failed lookup counts as
\* a missing project); otherwise directory and branch go by force, and the columns
\* with them, unless git fails.
SweepRow(s) ==
  /\ up /\ s \in sweep /\ sweep' = sweep \ {s}
  /\ \/ ClearWorktree(s, FALSE) /\ UNCHANGED gitVars
     \/ \E o \in Cleanup(s, "Force") :
          /\ dir' = [dir EXCEPT ![s] = o.dir] /\ branch' = [branch EXCEPT ![s] = o.branch]
          /\ IF o.err THEN UNCHANGED row ELSE ClearWorktree(s, FALSE)
  /\ UNCHANGED <<daemonVars, project, procVars, req, early>>

\* A kill or a power cut.  The hang-up that follows ends most children, not all.
Crash ==
  /\ up /\ crashes < MaxCrashes
  /\ up' = FALSE /\ crashes' = crashes + 1
  /\ req' = [r \in Requests |-> Idle] /\ pump' = [s \in Sessions |-> "off"]
  /\ sweep' = {}
  /\ \E alive \in SUBSET {s \in Sessions : child[s] = "alive"} :
       /\ child' = [s \in Sessions |-> IF child[s] = "alive" /\ s \notin alive THEN "dead"
                                       ELSE child[s]]
       /\ orphans' = orphans \cup alive
  /\ UNCHANGED <<rowVars, gitVars, mem, early>>

\* Daemon::bind reaps the active rows whose process is gone: no pid recorded, or
\* one that is not alive (another process may have got it).  An error ends the pass.
ReapOrphans(reaped) ==
  /\ reaped \subseteq {s \in Sessions : /\ row[s] # None /\ row[s].state \in Active
                                        /\ ~row[s].pid \/ child[s] # "alive"}
  /\ row' = [s \in Sessions |-> IF s \in reaped THEN [row[s] EXCEPT !.state = "exited"] ELSE row[s]]

Restart ==
  /\ ~up /\ up' = TRUE
  /\ \E reaped \in SUBSET Sessions : ReapOrphans(reaped)
  /\ UNCHANGED <<crashes, orphans, project, gitVars, procVars, req, sweep, early>>

-----------------------------------------------------------------------------
RequestStep(r) == CreateSteps(r) \/ OtherSteps(r)

Next ==
  \/ \E r \in Requests :
       \/ RequestStep(r)
       \/ \E s \in Sessions : \/ \E wt \in BOOLEAN : CreateRequest(r, s, wt)
                              \/ ArchiveRequest(r, s, "snapshot")
                              \/ ArchiveRequest(r, s, "delete")
                              \/ ImportRequest(r, s)
  \/ \E s \in Sessions : Promote(s) \/ PumpExit(s) \/ PumpRemove(s) \/ ChildExits(s)
                         \/ Work(s) \/ Age(s) \/ SweepRow(s)
  \/ SweepStart \/ Crash \/ Restart

Spec == Init /\ [][Next]_vars

\* A request's task runs to its end, time passes, a supervisor restarts the daemon;
\* the sweep comes round every hour, so that no client archives a session again just
\* before each of its rounds; and a sweep that is tried again and again gets through
\* to git and SQLite at last.
SweepDone(s) == SweepRow(s) /\ row' # row

Fairness ==
  /\ SF_vars(SweepStart) /\ WF_vars(Restart)
  /\ \A r \in Requests : WF_vars(RequestStep(r))
  /\ \A s \in Sessions : WF_vars(Age(s)) /\ WF_vars(SweepRow(s)) /\ SF_vars(SweepDone(s))

FairSpec == Spec /\ Fairness

-----------------------------------------------------------------------------
(* Properties *)

\* Every variable keeps its type; a runtime's state is one the pump can leave it in.
TypeOK ==
  /\ up \in BOOLEAN /\ crashes \in 0..MaxCrashes /\ project \in BOOLEAN
  /\ row \in [Sessions -> Rows \cup {None}]
  /\ dir \in [Sessions -> {"none", "clean", "dirty"}]
  /\ branch \in [Sessions -> {"none", "base", "ahead"}]
  /\ child \in [Sessions -> {"none", "alive", "dead"}]
  /\ mem \in [Sessions -> Active \cup {"exited"}]
  /\ pump \in [Sessions -> {"off", "reading", "exited"}]
  /\ req \in [Requests -> [at : Ats, s : Sessions \cup {None}, wt : BOOLEAN, path : BOOLEAN]]
  /\ sweep \subseteq Sessions /\ early \subseteq Sessions /\ orphans \subseteq Sessions

\* An archived session stays archived, has no runtime, and no child but one a crash left
\* running: archive refuses what is in the registry, and neither the pump nor the reaper
\* writes to what it archived.  The exception is a request let in between the insert of
\* the row and the registry's.
ArchivedIsQuiet ==
  \A s \in Sessions : row[s] # None /\ row[s].archived # "no" /\ s \notin early =>
    /\ s \notin Registry /\ row[s].state = "archived"
    /\ child[s] = "alive" => s \in orphans

\* A child that runs has a runtime, or the request that spawned it is about to give it
\* one, or a crash took it away: nothing else in create, archive, delete and the pump
\* loses a child.
ChildrenAreWatched ==
  \A s \in Sessions : child[s] = "alive" =>
    \/ pump[s] = "reading" \/ s \in orphans
    \/ \E r \in Requests : req[r].s = s /\ req[r].at \in {"pid", "register"}

\* A session in the registry has had a child, and keeps its row: in use, and not said to
\* have exited before its pump has seen the end.  (Not so for one whose archive or delete
\* was let in early.)
RegisteredHasRow ==
  \A s \in Registry :
    /\ child[s] # "none"
    /\ pump[s] = "exited" => child[s] = "dead"
    /\ s \notin early => row[s] # None /\ row[s].archived = "no"
    /\ s \notin early /\ pump[s] = "reading" => row[s].state \in Active

\* The reaper writes off no session whose process it could have known: a child that runs
\* under an exited row never got its pid on the row (reap_orphans takes a row without a
\* pid for one whose process is gone).
ReapedIsGone ==
  \A s \in Sessions : row[s] # None /\ row[s].state = "exited" /\ child[s] = "alive" => ~row[s].pid

\* The worktree of a session that was spawned and is not archived is there, directory and
\* branch, as long as its row names it: no rollback, cleanup or sweep of another step
\* takes it away.
WorktreeStands ==
  \A s \in Sessions : row[s] # None /\ row[s].archived = "no" /\ row[s].path /\ child[s] # "none" =>
    dir[s] # "none" /\ branch[s] # "none"

\* Rows, registry, children and worktrees of the sessions fit together at every step of
\* their requests, and after a crash and a restart.
LifecycleInv ==
  /\ TypeOK /\ ArchivedIsQuiet /\ ChildrenAreWatched /\ RegisteredHasRow /\ ReapedIsGone
  /\ WorktreeStands

\* Work the agent committed can be found again: its branch exists, and the row, if
\* there is one, names it.
Recoverable(s) == branch[s] = "ahead" /\ (row[s] # None => row[s].branch)

\* Neither a rollback, an archive, a delete, a crash nor a reaper costs a session its
\* committed work; only the sweep of a row archived a TTL ago does.
CommittedWorkKept ==
  [][\A s \in Sessions : Recoverable(s) /\ ~Recoverable(s)' => s \in sweep]_vars

\* The worktree of an archived session is given up at last, although the archive's
\* cleanup, the sweep's git and every statement may fail and the daemon may crash.
WorktreesAreSwept ==
  \A s \in Sessions : (row[s] # None /\ row[s].archived # "no" /\ row[s].path)
                         ~> (row[s] = None \/ ~row[s].path)

=============================================================================
