----------------------- MODULE SessionLifecycle_proofs -----------------------
(***************************************************************************)
(* Proofs about SessionLifecycle, for every set of sessions and requests:   *)
(* rows, registry, children and worktrees fit together, and committed work  *)
(* outlives every request, crash and reaper.                                *)
(***************************************************************************)
EXTENDS SessionLifecycle, TLAPS

-----------------------------------------------------------------------------
(* The inductive invariant *)

\* Where a request is: before it has a row, between the row and the registry, or at work
\* on a session that has both.
Making == {"lookup", "project", "provision", "row", "find", "findProject", "importProject", "import"}
Spawns == {"spawn", "clear", "pid", "register"}
Ending == {"snapshot", "archive", "cleanup", "keep", "drop", "delete"}

\* A request at work has a session.
RequestsInv == \A r \in Requests : req[r].at # "idle" => req[r].s \in Sessions

\* An id that is being made is its request's alone: no row, no child, no work.
MakingInv ==
  \A r \in Requests : req[r].at \in Making =>
    /\ row[req[r].s] = None /\ child[req[r].s] = "none" /\ branch[req[r].s] # "ahead"
    /\ \A q \in Requests : q # r => req[q].s # req[r].s

\* One request spawns a session; until it has, the worktree has no work.
SpawnInv ==
  /\ \A r, q \in Requests : req[r].at \in Spawns /\ req[q].at \in Spawns /\ req[r].s = req[q].s => r = q
  /\ \A r \in Requests : req[r].at \in {"spawn", "clear"} =>
       child[req[r].s] = "none" /\ branch[req[r].s] # "ahead"

\* Nothing starts a session that is being archived or deleted, unless that began early;
\* a cleanup that found no branch leaves none.
EndingInv ==
  \A r \in Requests :
    /\ req[r].at \in Ending /\ req[r].s \notin early => pump[req[r].s] = "off" /\ ~Spawning(req[r].s)
    /\ req[r].at = "drop" => branch[req[r].s] = "none"

\* Nothing starts an archived session.
QuietInv ==
  \A s \in Sessions : row[s] # None /\ row[s].archived # "no" /\ s \notin early =>
    pump[s] = "off" /\ row[s].state = "archived" /\ ~Spawning(s)

OwnInv == RequestsInv /\ MakingInv /\ SpawnInv /\ EndingInv /\ QuietInv

Request == [at : Ats, s : Sessions \cup {None}, wt : BOOLEAN, path : BOOLEAN]

\* A new request, and one that goes on or ends.
LEMMA Requested ==
  ASSUME TypeOK, NEW r \in Requests, NEW x \in Request, req' = [req EXCEPT ![r] = x]
  PROVE  /\ req' \in [Requests -> Request] /\ req'[r] = x
         /\ \A q \in Requests : q # r => req'[q] = req[q]
BY DEF TypeOK, Request

\* A request that goes on keeps its session.
LEMMA GoesTo ==
  ASSUME TypeOK, NEW r \in Requests, NEW at \in Ats, Goto(r, at)
  PROVE  /\ req' \in [Requests -> Request] /\ req'[r].at = at /\ req'[r].s = req[r].s
         /\ req'[r].wt = req[r].wt /\ req'[r].path = req[r].path
         /\ \A q \in Requests : q # r => req'[q] = req[q]
<1>1. req[r] \in Request /\ req \in [Requests -> Request]
  BY DEF TypeOK, Request
<1>2. PICK x : x = [req[r] EXCEPT !.at = at]
  OBVIOUS
<1>3. x \in Request /\ x.at = at /\ x.s = req[r].s /\ x.wt = req[r].wt /\ x.path = req[r].path
  BY <1>1, <1>2 DEF Request
<1>4. req' = [req EXCEPT ![r] = x]
  BY <1>1, <1>2 DEF Goto
<1> QED
  BY <1>3, <1>4, Requested

\* A request that ends has none.
LEMMA IsDone ==
  ASSUME TypeOK, NEW r \in Requests, Done(r)
  PROVE  /\ req' \in [Requests -> Request] /\ req'[r].at = "idle" /\ req'[r].s = None
         /\ \A q \in Requests : q # r => req'[q] = req[q]
<1>1. Idle \in Request /\ Idle.at = "idle" /\ Idle.s = None
  BY DEF Idle, Request, Ats
<1> QED
  BY <1>1, Requested DEF Done

-----------------------------------------------------------------------------
(* Steps that begin nothing *)

\* A request stays, ends, or goes on among the steps of its kind.
GoesOn(r) ==
  \/ req'[r] = req[r]
  \/ req'[r].at = "idle" /\ req'[r].s = None
  \/ /\ req'[r].s = req[r].s /\ req[r].at # "idle"
     /\ req'[r].at \in Making => req[r].at \in Making
     /\ req'[r].at \in Spawns => req[r].at \in Spawns
     /\ req'[r].at \in {"spawn", "clear"} => req[r].at \in {"spawn", "clear"}
     /\ req'[r].at \in Ending => req[r].at \in Ending
     /\ req'[r].at = "drop" => branch'[req[r].s] = "none"

\* A row stays or goes, or changes in what no other row depends on.
RowGoesOn(s) ==
  \/ row'[s] = row[s] \/ row'[s] = None
  \/ /\ row[s] # None
     /\ row'[s].archived # "no" => row[s].archived # "no"
     /\ row'[s].state = row[s].state \/ pump[s] # "off" \/ row[s].state # "archived"

\* A worktree and a process go on or end; only a session that ran has work.
ProcessGoesOn(s) ==
  /\ branch'[s] = "ahead" => branch[s] = "ahead" \/ child[s] # "none"
  /\ branch[s] = "none" => branch'[s] = "none"
  /\ child[s] = "none" => child'[s] = "none"
  /\ pump[s] = "off" => pump'[s] = "off"

\* What goes on keeps what it owns.
LEMMA GoingOn ==
  ASSUME OwnInv, early' = early, \A r \in Requests : GoesOn(r),
         \A s \in Sessions : RowGoesOn(s) /\ ProcessGoesOn(s)
  PROVE  OwnInv'
<1>0. /\ \A r \in Requests : req'[r].at # "idle" => req[r].at # "idle" /\ req'[r].s = req[r].s
      /\ \A r \in Requests : req'[r].at # "idle" => req[r].s \in Sessions
      /\ \A r \in Requests : req'[r].s = None \/ req'[r].s = req[r].s
      /\ None \notin Sessions
  BY LifecycleAssumption DEF GoesOn, OwnInv, RequestsInv
<1>1. \A s \in Sessions : Spawning(s)' => Spawning(s)
  BY <1>0 DEF GoesOn, Spawning, Spawns
<1>2. RequestsInv'
  BY <1>0 DEF RequestsInv
<1>3. MakingInv'
  <2> SUFFICES ASSUME NEW r \in Requests, req'[r].at \in Making
               PROVE  /\ row'[req'[r].s] = None /\ child'[req'[r].s] = "none"
                      /\ branch'[req'[r].s] # "ahead"
                      /\ \A q \in Requests : q # r => req'[q].s # req'[r].s
    BY DEF MakingInv
  <2>1. PICK s \in Sessions : s = req[r].s /\ s = req'[r].s
    BY <1>0 DEF Making
  <2>2. req[r].at \in Making
    BY <2>1, <1>0, LifecycleAssumption DEF GoesOn, Making
  <2>3. /\ row[s] = None /\ child[s] = "none" /\ branch[s] # "ahead"
        /\ \A q \in Requests : q # r => req[q].s # s
    BY <2>1, <2>2 DEF OwnInv, MakingInv
  <2>4. RowGoesOn(s) /\ ProcessGoesOn(s)
    OBVIOUS
  <2> QED
    BY <1>0, <2>1, <2>3, <2>4 DEF RowGoesOn, ProcessGoesOn
<1>4. SpawnInv'
  <2>1. \A r \in Requests :
          /\ req'[r].at \in Spawns => req[r].at \in Spawns /\ req'[r].s = req[r].s
          /\ req'[r].at \in {"spawn", "clear"} => req[r].at \in {"spawn", "clear"}
    BY <1>0 DEF GoesOn, Spawns
  <2>2. \A r, q \in Requests : req'[r].at \in Spawns /\ req'[q].at \in Spawns
                                  /\ req'[r].s = req'[q].s => r = q
    BY <2>1 DEF OwnInv, SpawnInv
  <2>3. ASSUME NEW r \in Requests, req'[r].at \in {"spawn", "clear"}
        PROVE  child'[req'[r].s] = "none" /\ branch'[req'[r].s] # "ahead"
    <3>1. PICK s \in Sessions : s = req[r].s /\ s = req'[r].s
      BY <1>0, <2>3
    <3>2. child[s] = "none" /\ branch[s] # "ahead"
      BY <2>1, <2>3, <3>1 DEF OwnInv, SpawnInv
    <3> QED
      BY <3>1, <3>2 DEF ProcessGoesOn
  <2> QED
    BY <2>2, <2>3 DEF SpawnInv
<1>5. EndingInv'
  <2> SUFFICES ASSUME NEW r \in Requests, req'[r].at \in Ending
               PROVE  /\ (req[r].s \notin early => pump[req[r].s] = "off" /\ ~Spawning(req[r].s))'
                      /\ req'[r].at = "drop" => branch'[req'[r].s] = "none"
    BY DEF EndingInv, Ending
  <2>1. PICK s \in Sessions : s = req[r].s /\ s = req'[r].s
    BY <1>0 DEF Ending
  <2>2. req[r].at \in Ending
    BY <1>0, <2>1, LifecycleAssumption DEF GoesOn, Ending
  <2>3. /\ s \notin early => pump[s] = "off" /\ ~Spawning(s)
        /\ req[r].at = "drop" => branch[s] = "none"
    BY <2>1, <2>2 DEF OwnInv, EndingInv
  <2>4. req'[r].at = "drop" => branch'[s] = "none"
    BY <2>1, <2>3 DEF GoesOn, ProcessGoesOn
  <2>5. s \notin early' => pump'[s] = "off"
    BY <2>3 DEF ProcessGoesOn
  <2>6. Spawning(req[r].s)' => Spawning(s)'
    BY <2>1 DEF Spawning
  <2> QED
    BY <1>1, <2>1, <2>3, <2>4, <2>5, <2>6
<1>6. QuietInv'
  <2> SUFFICES ASSUME NEW s \in Sessions, row'[s] # None, row'[s].archived # "no", s \notin early'
               PROVE  pump'[s] = "off" /\ row'[s].state = "archived" /\ ~Spawning(s)'
    BY DEF QuietInv
  <2>1. row[s] # None /\ row[s].archived # "no"
    BY DEF RowGoesOn
  <2>2. pump[s] = "off" /\ row[s].state = "archived" /\ ~Spawning(s)
    BY <2>1 DEF OwnInv, QuietInv
  <2> QED
    BY <1>1, <2>2 DEF RowGoesOn, ProcessGoesOn
<1> QED
  BY <1>2, <1>3, <1>4, <1>5, <1>6 DEF OwnInv

-----------------------------------------------------------------------------
(* Rows and git *)

\* One row is written.
LEMMA RowSet ==
  ASSUME TypeOK, NEW s \in Sessions, NEW x \in Rows \cup {None}, row' = [row EXCEPT ![s] = x]
  PROVE  /\ row' \in [Sessions -> Rows \cup {None}] /\ row'[s] = x
         /\ \A t \in Sessions : t # s => row'[t] = row[t]
<1>1. row \in [Sessions -> Rows \cup {None}]
  BY DEF TypeOK
<1> QED
  BY <1>1

\* clear_worktree touches the worktree columns of one row.
LEMMA Cleared ==
  ASSUME TypeOK, NEW s \in Sessions, NEW keep \in BOOLEAN, ClearWorktree(s, keep)
  PROVE  /\ row' \in [Sessions -> Rows \cup {None}]
         /\ \A t \in Sessions : t # s => row'[t] = row[t]
         /\ row[s] = None => row'[s] = None
         /\ row[s] # None => /\ row'[s].archived = row[s].archived
                             /\ row'[s].state = row[s].state /\ row'[s].pid = row[s].pid
                             /\ row'[s].path => row[s].path
                             /\ keep => row'[s].branch = row[s].branch
<1>0. row \in [Sessions -> Rows \cup {None}]
  BY DEF TypeOK
<1>1. CASE row' = row
  BY <1>0, <1>1
<1>2. CASE row[s] # None /\ row' = [row EXCEPT ![s].path = FALSE, ![s].branch = keep /\ @]
  <2>1. row[s] \in Rows
    BY <1>0, <1>2
  <2>2. PICK b \in BOOLEAN : b = (keep /\ row[s].branch)
    BY Zenon
  <2>3. keep => b = row[s].branch
    <3>1. row[s].branch \in BOOLEAN
      BY <2>1 DEF Rows
    <3> QED
      BY <2>2, <3>1
  <2>4. PICK x : x = [row[s] EXCEPT !.path = FALSE, !.branch = b]
    OBVIOUS
  <2>5. /\ x \in Rows /\ x.archived = row[s].archived /\ x.state = row[s].state /\ x.branch = b
        /\ x.pid = row[s].pid /\ ~x.path
    BY <2>1, <2>4 DEF Rows
  <2>6. row' = [row EXCEPT ![s] = x]
    BY <1>0, <1>2, <2>1, <2>2, <2>4 DEF Rows
  <2>7. /\ row' \in [Sessions -> Rows \cup {None}] /\ row'[s] = x
        /\ \A t \in Sessions : t # s => row'[t] = row[t]
    BY <2>5, <2>6, RowSet
  <2> QED
    BY <1>2, <2>3, <2>5, <2>7
<1> QED
  BY <1>1, <1>2 DEF ClearWorktree

\* update_state touches the state of one row.
LEMMA StateSet ==
  ASSUME TypeOK, NEW s \in Sessions, NEW state \in States, UpdateState(s, state)
  PROVE  /\ row' \in [Sessions -> Rows \cup {None}]
         /\ \A t \in Sessions : t # s => row'[t] = row[t]
         /\ row[s] = None => row'[s] = None
         /\ row[s] # None => /\ row'[s].archived = row[s].archived /\ row'[s].branch = row[s].branch
                             /\ row'[s].path = row[s].path /\ row'[s].pid = row[s].pid
                             /\ row'[s].state \in {row[s].state, state}
<1>0. row \in [Sessions -> Rows \cup {None}]
  BY DEF TypeOK
<1>1. CASE row' = row
  BY <1>0, <1>1
<1>2. CASE row[s] # None /\ row' = [row EXCEPT ![s].state = state]
  <2>1. row[s] \in Rows
    BY <1>0, <1>2
  <2>2. PICK x : x = [row[s] EXCEPT !.state = state]
    OBVIOUS
  <2>3. /\ x \in Rows /\ x.archived = row[s].archived /\ x.branch = row[s].branch
        /\ x.path = row[s].path /\ x.pid = row[s].pid /\ x.state = state
    BY <2>1, <2>2 DEF Rows
  <2>4. row' = [row EXCEPT ![s] = x]
    BY <1>2, <2>2
  <2> QED
    BY <1>2, <2>3, <2>4, RowSet
<1> QED
  BY <1>1, <1>2 DEF UpdateState

Dirs == {"none", "clean", "dirty"}
Branches == {"none", "base", "ahead"}

\* Directory and branch of one session are what git left.
LEMMA GitSet ==
  ASSUME TypeOK, NEW s \in Sessions, NEW d \in Dirs, NEW b \in Branches,
         dir' = [dir EXCEPT ![s] = d], branch' = [branch EXCEPT ![s] = b]
  PROVE  /\ dir' \in [Sessions -> Dirs] /\ branch' \in [Sessions -> Branches]
         /\ dir'[s] = d /\ branch'[s] = b
         /\ \A t \in Sessions : t # s => dir'[t] = dir[t] /\ branch'[t] = branch[t]
<1>1. dir \in [Sessions -> Dirs] /\ branch \in [Sessions -> Branches]
  BY DEF TypeOK, Dirs, Branches
<1> QED
  BY <1>1

\* A cleanup leaves the branch or nothing; it forgets one that is ahead only by force.
LEMMA CleanupLeaves ==
  ASSUME TypeOK, NEW s \in Sessions, NEW mode \in {"Force", "KeepBranchIfDirty"}, NEW o \in Cleanup(s, mode)
  PROVE  /\ o.dir \in {dir[s], "none"} /\ o.branch \in {branch[s], "none"}
         /\ o.dir \in Dirs /\ o.branch \in Branches
         /\ mode # "Force" /\ branch[s] = "ahead" => o.branch = "ahead"
<1>0. dir[s] \in Dirs /\ branch[s] \in Branches
  BY DEF TypeOK, Dirs, Branches
<1>1. \A w \in WorktreeRemove(s) : w.dir \in {dir[s], "none"}
  BY DEF WorktreeRemove, Unsure
<1>2. \A w \in BranchDelete(s) : w.branch \in {branch[s], "none"}
  BY DEF BranchDelete, Unsure
<1>3. CASE \E w \in WorktreeRemove(s) : o = [err |-> TRUE, dir |-> w.dir, branch |-> branch[s]]
  BY <1>0, <1>1, <1>3 DEF Dirs, Branches
<1>4. CASE o = [err |-> FALSE, dir |-> "none", branch |-> branch[s]]
  BY <1>0, <1>4 DEF Dirs
<1>5. CASE /\ \E w \in BranchDelete(s) : o = [err |-> w.err, dir |-> "none", branch |-> w.branch]
           /\ mode = "Force" \/ branch[s] # "ahead"
  BY <1>0, <1>2, <1>5 DEF Dirs, Branches
<1> QED
  BY <1>3, <1>4, <1>5 DEF Cleanup, HasCommitsBeyond

-----------------------------------------------------------------------------
(* Every step that begins nothing *)

Onward ==
  /\ early' = early /\ \A r \in Requests : GoesOn(r)
  /\ \A s \in Sessions : RowGoesOn(s) /\ ProcessGoesOn(s)

\* What CommittedWorkKept asks of a step.
WorkKept == \A s \in Sessions : Recoverable(s) /\ ~Recoverable(s)' => s \in sweep

\* What stays goes on.
LEMMA StayGoesOn ==
  ASSUME NEW s \in Sessions
  PROVE  /\ row' = row => RowGoesOn(s)
         /\ UNCHANGED <<branch, child, pump>> => ProcessGoesOn(s)
         /\ UNCHANGED <<branch, row>> => ~(Recoverable(s) /\ ~Recoverable(s)')
BY DEF RowGoesOn, ProcessGoesOn, Recoverable

\* A request of ensure_project or of an import that looks something up.
LEMMA LookupSteps ==
  ASSUME TypeOK, NEW r \in Requests,
         \/ EnsureProject(r, "lookup", "project", "provision")
         \/ EnsureProject(r, "findProject", "importProject", "import")
         \/ ImportFind(r)
  PROVE  TypeOK' /\ Onward /\ WorkKept
<1>1. /\ UNCHANGED <<daemonVars, row, gitVars, procVars, sweep, early>> /\ project' \in BOOLEAN
      /\ \/ Done(r)
         \/ req[r].at \in Making /\ \E at \in Making : Goto(r, at)
  BY DEF EnsureProject, ImportFind, TypeOK, rowVars, Making
<1>2. req' \in [Requests -> Request] /\ \A q \in Requests : GoesOn(q)
  <2>1. CASE Done(r)
    BY <2>1, IsDone DEF GoesOn
  <2>2. CASE req[r].at \in Making /\ \E at \in Making : Goto(r, at)
    <3>1. PICK at \in Making : Goto(r, at)
      BY <2>2
    <3>2. at \in Ats
      BY DEF Making, Ats
    <3>3. /\ req' \in [Requests -> Request] /\ req'[r].at = at /\ req'[r].s = req[r].s
          /\ \A q \in Requests : q # r => req'[q] = req[q]
      BY <3>1, <3>2, GoesTo
    <3>4. GoesOn(r)
      BY <2>2, <3>3 DEF GoesOn, Making, Spawns, Ending
    <3> QED
      BY <3>3, <3>4 DEF GoesOn
  <2> QED
    BY <1>1, <2>1, <2>2
<1>3. TypeOK'
  BY <1>1, <1>2 DEF TypeOK, daemonVars, gitVars, procVars, Request
<1> QED
  BY <1>1, <1>2, <1>3, StayGoesOn DEF Onward, WorkKept, gitVars, procVars

\* A request that ends.
LEMMA DoneGoesOn ==
  ASSUME TypeOK, NEW r \in Requests, Done(r)
  PROVE  req' \in [Requests -> Request] /\ \A q \in Requests : GoesOn(q)
BY IsDone DEF GoesOn

\* The last steps of a creation and of an archive write one row, and lose no work: a
\* branch that is ahead is named as long as its request does not know it gone.
LEMMA RowSteps ==
  ASSUME TypeOK, OwnInv, NEW r \in Requests,
         ClearFailed(r) \/ UpdatePid(r) \/ Hook(r) \/ ArchiveClear(r) \/ DeleteRow(r)
  PROVE  TypeOK' /\ Onward /\ WorkKept
<1>0. PICK s \in Sessions : s = req[r].s
  BY DEF OwnInv, RequestsInv, ClearFailed, UpdatePid, Hook, ArchiveClear, DeleteRow
<1>1. UNCHANGED <<daemonVars, project, gitVars, procVars, sweep, early>>
  BY DEF ClearFailed, UpdatePid, Hook, ArchiveClear, DeleteRow
<1>2. req' \in [Requests -> Request] /\ \A q \in Requests : GoesOn(q)
  <2>1. CASE UpdatePid(r)
    <3>1. "register" \in Ats /\ req[r].at = "pid" /\ Goto(r, "register")
      BY <2>1 DEF UpdatePid, Ats
    <3>2. /\ req' \in [Requests -> Request] /\ req'[r].at = "register" /\ req'[r].s = req[r].s
          /\ \A q \in Requests : q # r => req'[q] = req[q]
      BY <3>1, GoesTo
    <3>3. GoesOn(r)
      BY <3>1, <3>2 DEF GoesOn, Making, Spawns, Ending
    <3> QED
      BY <3>2, <3>3 DEF GoesOn
  <2>2. CASE ~UpdatePid(r)
    <3>1. Done(r)
      BY <2>2 DEF ClearFailed, Hook, ArchiveClear, DeleteRow
    <3> QED
      BY <3>1, DoneGoesOn
  <2> QED
    BY <2>1, <2>2
<1>3. row \in [Sessions -> Rows \cup {None}]
  BY DEF TypeOK
<1>4. /\ row' \in [Sessions -> Rows \cup {None}] /\ RowGoesOn(s)
      /\ \A t \in Sessions : t # s => row'[t] = row[t]
      /\ Recoverable(s) => Recoverable(s)'
  <2>0. branch' = branch
    BY <1>1 DEF gitVars
  <2>1. CASE ClearFailed(r)
    <3>1. req[r].at = "clear" /\ ClearWorktree(s, FALSE)
      BY <1>0, <2>1 DEF ClearFailed
    <3>2. branch[s] # "ahead"
      BY <1>0, <3>1 DEF OwnInv, SpawnInv
    <3> QED
      BY <2>0, <3>1, <3>2, Cleared DEF RowGoesOn, Recoverable
  <2>2. CASE ArchiveClear(r)
    <3>1. CASE req[r].at = "keep"
      <4>1. ClearWorktree(s, TRUE)
        BY <1>0, <2>2, <3>1 DEF ArchiveClear
      <4> QED
        BY <2>0, <4>1, Cleared DEF RowGoesOn, Recoverable
    <3>2. CASE req[r].at = "drop"
      <4>1. ClearWorktree(s, FALSE)
        BY <1>0, <2>2, <3>2 DEF ArchiveClear
      <4>2. branch[s] = "none"
        BY <1>0, <3>2 DEF OwnInv, EndingInv
      <4> QED
        BY <2>0, <4>1, <4>2, Cleared DEF RowGoesOn, Recoverable
    <3> QED
      BY <2>2, <3>1, <3>2 DEF ArchiveClear
  <2>3. CASE row' = row
    BY <1>3, <2>0, <2>3 DEF RowGoesOn, Recoverable
  <2>4. CASE row' = [row EXCEPT ![s] = None]
    BY <2>0, <2>4, RowSet DEF RowGoesOn, Recoverable
  <2>5. CASE /\ row[s] # None
             /\ row' = [row EXCEPT ![s].pid = TRUE] \/ row' = [row EXCEPT ![s].hook = TRUE]
    <3>1. row[s] \in Rows
      BY <1>3, <2>5
    <3>2. PICK x : /\ x = [row[s] EXCEPT !.pid = TRUE] \/ x = [row[s] EXCEPT !.hook = TRUE]
                   /\ row' = [row EXCEPT ![s] = x]
      BY <2>5
    <3>3. x \in Rows /\ x.archived = row[s].archived /\ x.state = row[s].state /\ x.branch = row[s].branch
      BY <3>1, <3>2 DEF Rows
    <3>4. /\ row' \in [Sessions -> Rows \cup {None}] /\ row'[s] = x
          /\ \A t \in Sessions : t # s => row'[t] = row[t]
      BY <3>2, <3>3, RowSet
    <3> QED
      BY <2>0, <2>5, <3>3, <3>4 DEF RowGoesOn, Recoverable
  <2> QED
    BY <1>0, <2>1, <2>2, <2>3, <2>4, <2>5 DEF UpdatePid, Hook, DeleteRow, NoteHook
<1>5. \A t \in Sessions : RowGoesOn(t)
  BY <1>4 DEF RowGoesOn
<1>6. \A t \in Sessions : Recoverable(t) => Recoverable(t)'
  <2>1. ASSUME NEW t \in Sessions, t # s PROVE Recoverable(t) => Recoverable(t)'
    BY <1>1, <1>4, <2>1 DEF Recoverable, gitVars
  <2> QED
    BY <1>4, <2>1
<1>7. TypeOK'
  BY <1>1, <1>2, <1>4 DEF TypeOK, daemonVars, gitVars, procVars, Request
<1> QED
  BY <1>1, <1>2, <1>5, <1>6, <1>7, StayGoesOn DEF Onward, WorkKept, gitVars, procVars

\* A request that moves on or ends while rows and processes stay; what git does to its
\* session costs no work.
LEMMA GitMoves ==
  ASSUME TypeOK, NEW r \in Requests, NEW s \in Sessions, NEW d \in Dirs, NEW b \in Branches,
         UNCHANGED <<daemonVars, rowVars, procVars, sweep, early>>,
         dir' = [dir EXCEPT ![s] = d], branch' = [branch EXCEPT ![s] = b],
         b \in {branch[s], "none"}, branch[s] = "ahead" => b = "ahead",
         req' \in [Requests -> Request], \A q \in Requests : GoesOn(q)
  PROVE  TypeOK' /\ Onward /\ WorkKept
<1>1. /\ dir' \in [Sessions -> Dirs] /\ branch' \in [Sessions -> Branches] /\ branch'[s] = b
      /\ \A t \in Sessions : t # s => branch'[t] = branch[t]
  BY GitSet
<1>2. TypeOK'
  BY <1>1 DEF TypeOK, daemonVars, rowVars, procVars, Request, Dirs, Branches
<1>3. ASSUME NEW t \in Sessions
      PROVE  RowGoesOn(t) /\ ProcessGoesOn(t) /\ (Recoverable(t) => Recoverable(t)')
  <2>1. CASE t = s
    BY <1>1, <2>1 DEF RowGoesOn, ProcessGoesOn, Recoverable, rowVars, procVars
  <2>2. CASE t # s
    BY <1>1, <2>2 DEF RowGoesOn, ProcessGoesOn, Recoverable, rowVars, procVars
  <2> QED
    BY <2>1, <2>2
<1> QED
  BY <1>2, <1>3 DEF Onward, WorkKept

\* A rollback costs no work: there is none yet.
LEMMA RollbackMoves ==
  ASSUME TypeOK, NEW r \in Requests, NEW s \in Sessions, branch[s] # "ahead", Rollback(s),
         UNCHANGED <<daemonVars, rowVars, procVars, sweep, early>>,
         req' \in [Requests -> Request], \A q \in Requests : GoesOn(q)
  PROVE  TypeOK' /\ Onward /\ WorkKept
<1>1. PICK o \in Cleanup(s, "Force") :
        dir' = [dir EXCEPT ![s] = o.dir] /\ branch' = [branch EXCEPT ![s] = o.branch]
  BY DEF Rollback
<1>2. o.branch \in {branch[s], "none"} /\ o.dir \in Dirs /\ o.branch \in Branches
  BY CleanupLeaves
<1> QED
  BY <1>1, <1>2, GitMoves

\* Nothing but requests move.
LEMMA RequestMoves ==
  ASSUME TypeOK, UNCHANGED <<daemonVars, rowVars, gitVars, procVars, sweep, early>>,
         req' \in [Requests -> Request], \A q \in Requests : GoesOn(q)
  PROVE  TypeOK' /\ Onward /\ WorkKept
<1>1. TypeOK'
  BY DEF TypeOK, daemonVars, rowVars, gitVars, procVars, Request
<1> QED
  BY <1>1, StayGoesOn DEF Onward, WorkKept, rowVars, gitVars, procVars

\* A creation that provisions nothing, fails, or is rolled back.
LEMMA FailSteps ==
  ASSUME TypeOK, OwnInv, NEW r \in Requests, UNCHANGED <<daemonVars, rowVars, procVars, sweep, early>>,
         \/ req[r].at = "provision" /\ UNCHANGED gitVars /\ (Goto(r, "row") \/ Done(r))
         \/ req[r].at = "row" /\ Done(r) /\ (Rollback(req[r].s) \/ UNCHANGED gitVars)
         \/ /\ req[r].at = "spawn"
            /\ (Rollback(req[r].s) /\ Goto(r, "clear")) \/ (Done(r) /\ UNCHANGED gitVars)
  PROVE  TypeOK' /\ Onward /\ WorkKept
<1>0. PICK s \in Sessions : s = req[r].s
  BY DEF OwnInv, RequestsInv
<1>1. branch[s] # "ahead"
  BY <1>0 DEF OwnInv, MakingInv, SpawnInv, Making
<1>2. req' \in [Requests -> Request] /\ \A q \in Requests : GoesOn(q)
  <2>1. CASE Done(r)
    BY <2>1, DoneGoesOn
  <2>2. CASE req[r].at = "provision" /\ Goto(r, "row")
    <3>1. "row" \in Ats
      BY DEF Ats
    <3>2. /\ req' \in [Requests -> Request] /\ req'[r].at = "row" /\ req'[r].s = req[r].s
          /\ \A q \in Requests : q # r => req'[q] = req[q]
      BY <2>2, <3>1, GoesTo
    <3>3. GoesOn(r)
      BY <2>2, <3>2 DEF GoesOn, Making, Spawns, Ending
    <3> QED
      BY <3>2, <3>3 DEF GoesOn
  <2>3. CASE req[r].at = "spawn" /\ Goto(r, "clear")
    <3>1. "clear" \in Ats
      BY DEF Ats
    <3>2. /\ req' \in [Requests -> Request] /\ req'[r].at = "clear" /\ req'[r].s = req[r].s
          /\ \A q \in Requests : q # r => req'[q] = req[q]
      BY <2>3, <3>1, GoesTo
    <3>3. GoesOn(r)
      BY <2>3, <3>2 DEF GoesOn, Making, Spawns, Ending
    <3> QED
      BY <3>2, <3>3 DEF GoesOn
  <2> QED
    BY <2>1, <2>2, <2>3
<1>3. CASE Rollback(req[r].s)
  BY <1>0, <1>1, <1>2, <1>3, RollbackMoves
<1>4. CASE UNCHANGED gitVars
  BY <1>2, <1>4, RequestMoves
<1> QED
  BY <1>3, <1>4

\* An archive reads its row, or removes the worktree and keeps a branch that is ahead.
LEMMA ArchiveSteps ==
  ASSUME TypeOK, OwnInv, NEW r \in Requests, ArchiveSnapshot(r) \/ ArchiveCleanup(r)
  PROVE  TypeOK' /\ Onward /\ WorkKept
<1>0. PICK s \in Sessions : s = req[r].s
  BY DEF OwnInv, RequestsInv, ArchiveSnapshot, ArchiveCleanup
<1>1. CASE ArchiveSnapshot(r)
  <2>1. UNCHANGED <<daemonVars, rowVars, gitVars, procVars, sweep, early>>
    BY <1>1 DEF ArchiveSnapshot
  <2>2. req' \in [Requests -> Request] /\ \A q \in Requests : GoesOn(q)
    <3>1. CASE Done(r)
      BY <3>1, DoneGoesOn
    <3>2. CASE req' = [req EXCEPT ![r].at = "archive", ![r].path = row[s] # None /\ row[s].path]
      <4>1. PICK p \in BOOLEAN : p = (row[s] # None /\ row[s].path)
        BY Zenon
      <4>2. req[r] \in Request /\ req \in [Requests -> Request]
        BY DEF TypeOK, Request
      <4>3. PICK x : x = [req[r] EXCEPT !.at = "archive", !.path = p]
        OBVIOUS
      <4>4. x \in Request /\ x.at = "archive" /\ x.s = req[r].s
        BY <4>2, <4>3 DEF Request, Ats
      <4>5. req' = [req EXCEPT ![r] = x]
        BY <3>2, <4>1, <4>2, <4>3 DEF Request
      <4>6. /\ req' \in [Requests -> Request] /\ req'[r] = x
            /\ \A q \in Requests : q # r => req'[q] = req[q]
        BY <4>4, <4>5, Requested
      <4>7. req[r].at = "snapshot"
        BY <1>1 DEF ArchiveSnapshot
      <4>8. GoesOn(r)
        BY <4>4, <4>6, <4>7 DEF GoesOn, Making, Spawns, Ending
      <4> QED
        BY <4>6, <4>8 DEF GoesOn
    <3> QED
      BY <1>0, <1>1, <3>1, <3>2 DEF ArchiveSnapshot
  <2> QED
    BY <2>1, <2>2, RequestMoves
<1>2. CASE ArchiveCleanup(r)
  <2>1. PICK o \in Cleanup(s, "KeepBranchIfDirty") :
          /\ dir' = [dir EXCEPT ![s] = o.dir] /\ branch' = [branch EXCEPT ![s] = o.branch]
          /\ IF o.err THEN Done(r) ELSE Goto(r, IF o.branch # "none" THEN "keep" ELSE "drop")
    BY <1>0, <1>2 DEF ArchiveCleanup
  <2>2. /\ o.branch \in {branch[s], "none"} /\ o.dir \in Dirs /\ o.branch \in Branches
        /\ branch[s] = "ahead" => o.branch = "ahead"
    BY CleanupLeaves
  <2>3. req[r].at = "cleanup" /\ UNCHANGED <<daemonVars, rowVars, procVars, sweep, early>>
    BY <1>2 DEF ArchiveCleanup
  <2>4. branch'[s] = o.branch
    BY <2>1, <2>2, GitSet
  <2>5. ASSUME NEW at \in {"keep", "drop"}, Goto(r, at), at = "drop" => o.branch = "none"
        PROVE  req' \in [Requests -> Request] /\ \A q \in Requests : GoesOn(q)
    <3>1. at \in Ats
      BY DEF Ats
    <3>2. /\ req' \in [Requests -> Request] /\ req'[r].at = at /\ req'[r].s = req[r].s
          /\ \A q \in Requests : q # r => req'[q] = req[q]
      BY <2>5, <3>1, GoesTo
    <3>3. GoesOn(r)
      BY <1>0, <2>3, <2>4, <2>5, <3>2 DEF GoesOn, Making, Spawns, Ending
    <3> QED
      BY <3>2, <3>3 DEF GoesOn
  <2>6. req' \in [Requests -> Request] /\ \A q \in Requests : GoesOn(q)
    BY <2>1, <2>5, DoneGoesOn
  <2> QED
    BY <2>1, <2>2, <2>3, <2>6, GitMoves
<1> QED
  BY <1>1, <1>2

\* The pump writes states to the rows of sessions that it runs.
LEMMA PumpSteps ==
  ASSUME TypeOK, NEW s \in Sessions, Promote(s) \/ PumpExit(s) \/ PumpRemove(s) \/ ChildExits(s)
  PROVE  TypeOK' /\ Onward /\ WorkKept
<1>0. /\ mem \in [Sessions -> Active \cup {"exited"}] /\ pump \in [Sessions -> {"off", "reading", "exited"}]
      /\ child \in [Sessions -> {"none", "alive", "dead"}] /\ row \in [Sessions -> Rows \cup {None}]
  BY DEF TypeOK
<1>1. UNCHANGED <<daemonVars, project, gitVars, req, sweep, early>>
  BY DEF Promote, PumpExit, PumpRemove, ChildExits, rowVars
<1>2. /\ mem' \in [Sessions -> Active \cup {"exited"}] /\ pump' \in [Sessions -> {"off", "reading", "exited"}]
      /\ child' \in [Sessions -> {"none", "alive", "dead"}]
  BY <1>0 DEF Promote, PumpExit, PumpRemove, ChildExits, Active
<1>3. \/ row' = row
      \/ pump[s] # "off" /\ \E state \in States : UpdateState(s, state)
  <2>1. CASE Promote(s)
    <3>1. pump[s] = "reading" /\ UpdateState(s, mem'[s]) /\ mem'[s] \in Active \cup {"exited"}
      BY <1>2, <2>1 DEF Promote
    <3> QED
      BY <3>1 DEF Active, States
  <2>2. CASE PumpExit(s)
    BY <2>2 DEF PumpExit, States
  <2> QED
    BY <2>1, <2>2 DEF PumpRemove, ChildExits, rowVars
<1>4. /\ row' \in [Sessions -> Rows \cup {None}]
      /\ \A t \in Sessions : RowGoesOn(t)
      /\ \A t \in Sessions : row[t] = None => row'[t] = None
      /\ \A t \in Sessions : row[t] # None => row'[t].branch = row[t].branch
  <2>1. CASE row' = row
    BY <1>0, <2>1 DEF RowGoesOn
  <2>2. ASSUME pump[s] # "off", NEW state \in States, UpdateState(s, state)
        PROVE  /\ row' \in [Sessions -> Rows \cup {None}] /\ RowGoesOn(s)
               /\ row[s] = None => row'[s] = None
               /\ row[s] # None => row'[s].branch = row[s].branch
               /\ \A t \in Sessions : t # s => row'[t] = row[t]
    BY <2>2, StateSet DEF RowGoesOn
  <2> QED
    BY <1>3, <2>1, <2>2 DEF RowGoesOn
<1>5. ASSUME NEW t \in Sessions
      PROVE  ProcessGoesOn(t) /\ (Recoverable(t) => Recoverable(t)')
  <2>1. Recoverable(t) => Recoverable(t)'
    BY <1>1, <1>4 DEF Recoverable, gitVars
  <2>2. (child[t] = "none" => child'[t] = "none") /\ (pump[t] = "off" => pump'[t] = "off")
    BY <1>0 DEF Promote, PumpExit, PumpRemove, ChildExits
  <2> QED
    BY <1>1, <2>1, <2>2 DEF ProcessGoesOn, gitVars
<1>6. TypeOK'
  BY <1>1, <1>2, <1>4 DEF TypeOK, daemonVars, gitVars
<1>7. \A q \in Requests : GoesOn(q)
  BY <1>1 DEF GoesOn
<1> QED
  BY <1>1, <1>4, <1>5, <1>6, <1>7 DEF Onward, WorkKept

\* Work is done where there is a branch, by a session that ran; time passes.
LEMMA WorkSteps ==
  ASSUME TypeOK, NEW s \in Sessions, Work(s) \/ Age(s)
  PROVE  TypeOK' /\ Onward /\ WorkKept
<1>0. /\ dir \in [Sessions -> Dirs] /\ branch \in [Sessions -> Branches]
      /\ row \in [Sessions -> Rows \cup {None}]
  BY DEF TypeOK, Dirs, Branches
<1>1. CASE Work(s)
  <2>1. /\ UNCHANGED <<daemonVars, rowVars, procVars, req, sweep, early>>
        /\ child[s] # "none" /\ branch[s] # "none"
        /\ dir' \in [Sessions -> Dirs] /\ branch' \in [Sessions -> Branches]
        /\ branch'[s] # "none" /\ (branch[s] = "ahead" => branch'[s] = "ahead")
        /\ \A t \in Sessions : t # s => branch'[t] = branch[t]
    BY <1>0, <1>1 DEF Work, Dirs, Branches
  <2>2. TypeOK'
    BY <2>1 DEF TypeOK, daemonVars, rowVars, procVars, Dirs, Branches
  <2>3. ASSUME NEW t \in Sessions
        PROVE  RowGoesOn(t) /\ ProcessGoesOn(t) /\ (Recoverable(t) => Recoverable(t)')
    <3>1. CASE t = s
      BY <2>1, <3>1 DEF RowGoesOn, ProcessGoesOn, Recoverable, rowVars, procVars
    <3>2. CASE t # s
      BY <2>1, <3>2 DEF RowGoesOn, ProcessGoesOn, Recoverable, rowVars, procVars
    <3> QED
      BY <3>1, <3>2
  <2> QED
    BY <2>1, <2>2, <2>3 DEF Onward, WorkKept, GoesOn
<1>2. CASE Age(s)
  <2>1. /\ UNCHANGED <<daemonVars, project, gitVars, procVars, req, sweep, early>>
        /\ row[s] # None /\ row[s].archived = "recent" /\ row' = [row EXCEPT ![s].archived = "expired"]
    BY <1>2 DEF Age
  <2>2. PICK x : x = [row[s] EXCEPT !.archived = "expired"]
    OBVIOUS
  <2>3. row[s] \in Rows /\ x \in Rows /\ x.state = row[s].state /\ x.branch = row[s].branch
    BY <1>0, <2>1, <2>2 DEF Rows
  <2>4. /\ row' \in [Sessions -> Rows \cup {None}] /\ row'[s] = x
        /\ \A t \in Sessions : t # s => row'[t] = row[t]
    <3>1. row' = [row EXCEPT ![s] = x]
      BY <2>1, <2>2
    <3> QED
      BY <2>3, <3>1, RowSet
  <2>5. TypeOK'
    BY <2>1, <2>4 DEF TypeOK, daemonVars, gitVars, procVars
  <2>6. ASSUME NEW t \in Sessions
        PROVE  RowGoesOn(t) /\ ProcessGoesOn(t) /\ (Recoverable(t) => Recoverable(t)')
    <3>1. CASE t = s
      BY <2>1, <2>3, <2>4, <3>1 DEF RowGoesOn, ProcessGoesOn, Recoverable, gitVars, procVars
    <3>2. CASE t # s
      BY <2>1, <2>4, <3>2 DEF RowGoesOn, ProcessGoesOn, Recoverable, gitVars, procVars
    <3> QED
      BY <3>1, <3>2
  <2> QED
    BY <2>1, <2>5, <2>6 DEF Onward, WorkKept, GoesOn
<1> QED
  BY <1>1, <1>2

\* The sweep gives up what it listed.
LEMMA SweepSteps ==
  ASSUME TypeOK, SweepStart \/ \E s \in Sessions : SweepRow(s)
  PROVE  TypeOK' /\ Onward /\ WorkKept
<1>1. CASE SweepStart
  <2>1. UNCHANGED <<daemonVars, rowVars, gitVars, procVars, req, early>> /\ sweep' \subseteq Sessions
    BY <1>1 DEF SweepStart, Expired
  <2>2. TypeOK'
    BY <2>1 DEF TypeOK, daemonVars, rowVars, gitVars, procVars
  <2> QED
    BY <2>1, <2>2, StayGoesOn DEF Onward, WorkKept, GoesOn, rowVars, gitVars, procVars
<1>2. ASSUME NEW s \in Sessions, SweepRow(s)
      PROVE  TypeOK' /\ Onward /\ WorkKept
  <2>0. row \in [Sessions -> Rows \cup {None}] /\ dir \in [Sessions -> Dirs] /\ branch \in [Sessions -> Branches]
    BY DEF TypeOK, Dirs, Branches
  <2>1. /\ UNCHANGED <<daemonVars, project, procVars, req, early>>
        /\ s \in sweep /\ sweep' = sweep \ {s}
        /\ row' = row \/ ClearWorktree(s, FALSE)
        /\ \/ UNCHANGED gitVars
           \/ \E o \in Cleanup(s, "Force") :
                dir' = [dir EXCEPT ![s] = o.dir] /\ branch' = [branch EXCEPT ![s] = o.branch]
    BY <1>2 DEF SweepRow
  <2>2. /\ row' \in [Sessions -> Rows \cup {None}] /\ RowGoesOn(s)
        /\ \A t \in Sessions : t # s => row'[t] = row[t]
    BY <2>0, <2>1, Cleared DEF RowGoesOn
  <2>3. /\ dir' \in [Sessions -> Dirs] /\ branch' \in [Sessions -> Branches]
        /\ branch'[s] \in {branch[s], "none"}
        /\ \A t \in Sessions : t # s => branch'[t] = branch[t]
    <3>1. CASE UNCHANGED gitVars
      BY <2>0, <3>1 DEF gitVars
    <3>2. ASSUME NEW o \in Cleanup(s, "Force"),
                 dir' = [dir EXCEPT ![s] = o.dir], branch' = [branch EXCEPT ![s] = o.branch]
          PROVE  /\ dir' \in [Sessions -> Dirs] /\ branch' \in [Sessions -> Branches]
                 /\ branch'[s] \in {branch[s], "none"}
                 /\ \A t \in Sessions : t # s => branch'[t] = branch[t]
      <4>1. o.branch \in {branch[s], "none"} /\ o.dir \in Dirs /\ o.branch \in Branches
        BY CleanupLeaves
      <4> QED
        BY <3>2, <4>1, GitSet
    <3> QED
      BY <2>1, <3>1, <3>2
  <2>4. TypeOK'
    BY <2>1, <2>2, <2>3 DEF TypeOK, daemonVars, procVars, Dirs, Branches
  <2>5. \A t \in Sessions : RowGoesOn(t) /\ ProcessGoesOn(t)
    BY <2>1, <2>2, <2>3 DEF RowGoesOn, ProcessGoesOn, procVars
  <2>6. ASSUME NEW t \in Sessions, t # s PROVE Recoverable(t) => Recoverable(t)'
    BY <2>2, <2>3, <2>6 DEF Recoverable
  <2> QED
    BY <2>1, <2>4, <2>5, <2>6 DEF Onward, WorkKept, GoesOn
<1> QED
  BY <1>1, <1>2

\* A crash ends every request and pump; the reaper leaves archived rows alone.
LEMMA CrashSteps ==
  ASSUME TypeOK, Crash \/ Restart
  PROVE  TypeOK' /\ Onward /\ WorkKept
<1>0. /\ row \in [Sessions -> Rows \cup {None}] /\ child \in [Sessions -> {"none", "alive", "dead"}]
      /\ crashes \in 0..MaxCrashes /\ MaxCrashes \in Nat
  BY LifecycleAssumption DEF TypeOK
<1>1. CASE Crash
  <2>1. /\ UNCHANGED <<rowVars, gitVars, mem, early>> /\ sweep' = {} /\ up' = FALSE
        /\ req' = [r \in Requests |-> Idle] /\ pump' = [s \in Sessions |-> "off"]
    BY <1>1 DEF Crash
  <2>2. crashes' \in 0..MaxCrashes
    BY <1>0, <1>1 DEF Crash
  <2>3. /\ child' \in [Sessions -> {"none", "alive", "dead"}]
        /\ \A s \in Sessions : child[s] = "none" => child'[s] = "none"
    BY <1>0, <1>1 DEF Crash
  <2>9. orphans' \subseteq Sessions
    BY <1>1 DEF Crash, TypeOK
  <2>4. /\ Idle \in Request /\ req' \in [Requests -> Request]
        /\ \A q \in Requests : req'[q].at = "idle" /\ req'[q].s = None
    BY <2>1 DEF Idle, Request, Ats
  <2>5. TypeOK'
    BY <2>1, <2>2, <2>3, <2>4, <2>9 DEF TypeOK, rowVars, gitVars, Request
  <2>6. \A s \in Sessions : ProcessGoesOn(s)
    BY <2>1, <2>3 DEF ProcessGoesOn, gitVars
  <2>7. \A s \in Sessions : RowGoesOn(s) /\ ~(Recoverable(s) /\ ~Recoverable(s)')
    BY <2>1, StayGoesOn DEF rowVars, gitVars
  <2>8. \A q \in Requests : GoesOn(q)
    BY <2>4 DEF GoesOn
  <2> QED
    BY <2>1, <2>5, <2>6, <2>7, <2>8 DEF Onward, WorkKept
<1>2. CASE Restart
  <2>1. UNCHANGED <<crashes, orphans, project, gitVars, procVars, req, sweep, early>> /\ up' = TRUE
    BY <1>2 DEF Restart
  <2>2. PICK reaped \in SUBSET Sessions : ReapOrphans(reaped)
    BY <1>2 DEF Restart
  <2>3. ASSUME NEW s \in Sessions
        PROVE  /\ row'[s] \in Rows \cup {None} /\ RowGoesOn(s)
               /\ Recoverable(s) => Recoverable(s)'
    <3>0. row'[s] = IF s \in reaped THEN [row[s] EXCEPT !.state = "exited"] ELSE row[s]
      BY <2>2 DEF ReapOrphans
    <3>1. CASE s \notin reaped
      BY <1>0, <2>1, <3>0, <3>1 DEF RowGoesOn, Recoverable, gitVars
    <3>2. CASE s \in reaped
      <4>1. row[s] # None /\ row[s].state \in Active /\ row[s] \in Rows
        BY <1>0, <2>2, <3>2 DEF ReapOrphans
      <4>2. PICK x : x = [row[s] EXCEPT !.state = "exited"]
        OBVIOUS
      <4>3. x \in Rows /\ x.archived = row[s].archived /\ x.branch = row[s].branch
        BY <4>1, <4>2 DEF Rows, States
      <4> QED
        BY <2>1, <3>0, <3>2, <4>1, <4>2, <4>3 DEF RowGoesOn, Recoverable, gitVars, Active
    <3> QED
      BY <3>1, <3>2
  <2>4. row' \in [Sessions -> Rows \cup {None}]
    <3>1. row' = [s \in Sessions |-> row'[s]]
      BY <2>2 DEF ReapOrphans
    <3> QED
      BY <2>3, <3>1
  <2>5. TypeOK'
    BY <2>1, <2>4 DEF TypeOK, gitVars, procVars
  <2>6. \A s \in Sessions : ProcessGoesOn(s)
    BY <2>1 DEF ProcessGoesOn, gitVars, procVars
  <2>7. \A q \in Requests : GoesOn(q)
    BY <2>1 DEF GoesOn
  <2> QED
    BY <2>1, <2>3, <2>5, <2>6, <2>7 DEF Onward, WorkKept
<1> QED
  BY <1>1, <1>2

-----------------------------------------------------------------------------
(* Steps that begin something *)

\* A creation or an import takes an id nobody works on.
LEMMA NewRequest ==
  ASSUME TypeOK, OwnInv, NEW r \in Requests, NEW s \in Sessions, NEW x \in Request,
         req[r] = Idle, Fresh(s), x.at \in {"lookup", "find"}, x.s = s, req' = [req EXCEPT ![r] = x],
         UNCHANGED <<daemonVars, rowVars, gitVars, procVars, sweep, early>>
  PROVE  TypeOK' /\ OwnInv' /\ WorkKept
<1>1. /\ req' \in [Requests -> Request] /\ req'[r] = x
      /\ \A q \in Requests : q # r => req'[q] = req[q]
  BY Requested
<1>2. TypeOK'
  BY <1>1 DEF TypeOK, daemonVars, rowVars, gitVars, procVars, Request
<1>3. row' = row /\ child' = child /\ branch' = branch /\ pump' = pump /\ early' = early
  BY DEF rowVars, procVars, gitVars
<1>4. WorkKept
  BY <1>3 DEF WorkKept, Recoverable
<1>5. \A t \in Sessions : Spawning(t)' => Spawning(t)
  BY <1>1 DEF Spawning
<1>6. RequestsInv'
  BY <1>1 DEF OwnInv, RequestsInv
<1>7. MakingInv'
  <2>1. row[s] = None /\ child[s] = "none" /\ branch[s] # "ahead" /\ \A q \in Requests : req[q].s # s
    BY DEF Fresh
  <2> QED
    BY <1>1, <1>3, <2>1 DEF OwnInv, MakingInv
<1>8. SpawnInv'
  BY <1>1, <1>3 DEF OwnInv, SpawnInv, Spawns
<1>9. EndingInv'
  <2> SUFFICES ASSUME NEW q \in Requests, req'[q].at \in Ending
               PROVE  /\ (req[q].s \notin early => pump[req[q].s] = "off" /\ ~Spawning(req[q].s))'
                      /\ req'[q].at = "drop" => branch'[req'[q].s] = "none"
    BY DEF EndingInv, Ending
  <2>1. q # r /\ req'[q] = req[q]
    BY <1>1 DEF Ending
  <2>2. req[q].s \in Sessions
    BY <2>1 DEF OwnInv, RequestsInv, Ending
  <2>3. Spawning(req[q].s)' => Spawning(req[q].s)
    BY <1>1, <2>1 DEF Spawning
  <2> QED
    BY <1>3, <2>1, <2>2, <2>3 DEF OwnInv, EndingInv
<1>10. QuietInv'
  BY <1>3, <1>5 DEF OwnInv, QuietInv
<1> QED
  BY <1>2, <1>4, <1>6, <1>7, <1>8, <1>9, <1>10 DEF OwnInv

\* sessions.create and sessions.import begin with a fresh id.
LEMMA BeginSteps ==
  ASSUME TypeOK, OwnInv, NEW r \in Requests, NEW s \in Sessions,
         ImportRequest(r, s) \/ \E wt \in BOOLEAN : CreateRequest(r, s, wt)
  PROVE  TypeOK' /\ OwnInv' /\ WorkKept
<1>1. CASE ImportRequest(r, s)
  <2>1. PICK x : x = [Idle EXCEPT !.at = "find", !.s = s]
    OBVIOUS
  <2>2. x \in Request /\ x.at = "find" /\ x.s = s
    BY <2>1 DEF Idle, Request, Ats
  <2>3. /\ req[r] = Idle /\ Fresh(s) /\ req' = [req EXCEPT ![r] = x]
        /\ UNCHANGED <<daemonVars, rowVars, gitVars, procVars, sweep, early>>
    BY <1>1, <2>1 DEF ImportRequest
  <2> QED
    BY <2>2, <2>3, NewRequest
<1>2. ASSUME NEW wt \in BOOLEAN, CreateRequest(r, s, wt)
      PROVE  TypeOK' /\ OwnInv' /\ WorkKept
  <2>1. PICK x : x = [at |-> "lookup", s |-> s, wt |-> wt, path |-> FALSE]
    OBVIOUS
  <2>2. x \in Request /\ x.at = "lookup" /\ x.s = s
    BY <2>1 DEF Request, Ats
  <2>3. /\ req[r] = Idle /\ Fresh(s) /\ req' = [req EXCEPT ![r] = x]
        /\ UNCHANGED <<daemonVars, rowVars, gitVars, procVars, sweep, early>>
    BY <1>2, <2>1 DEF CreateRequest
  <2> QED
    BY <2>2, <2>3, NewRequest
<1> QED
  BY <1>1, <1>2

\* An archive or a delete is let in for a session out of the registry; if it is being
\* spawned, that is early.
LEMMA ArchiveBegins ==
  ASSUME TypeOK, OwnInv, NEW r \in Requests, NEW s \in Sessions, NEW op \in {"snapshot", "delete"},
         ArchiveRequest(r, s, op)
  PROVE  TypeOK' /\ OwnInv' /\ WorkKept
<1>0. PICK x : x = [Idle EXCEPT !.at = op, !.s = s]
  OBVIOUS
<1>1. x \in Request /\ x.at = op /\ x.s = s
  BY <1>0 DEF Idle, Request, Ats
<1>2. /\ row' = row /\ child' = child /\ branch' = branch /\ pump' = pump
      /\ early' = IF Spawning(s) THEN early \cup {s} ELSE early
      /\ row[s] # None /\ pump[s] = "off" /\ req[r] = Idle /\ req' = [req EXCEPT ![r] = x]
      /\ UNCHANGED <<daemonVars, rowVars, gitVars, procVars, sweep>>
  BY <1>0 DEF ArchiveRequest, Registry, rowVars, procVars, gitVars
<1>3. /\ req' \in [Requests -> Request] /\ req'[r] = x
      /\ \A q \in Requests : q # r => req'[q] = req[q]
  BY <1>1, <1>2, Requested
<1>4. early \subseteq early' /\ early' \subseteq Sessions
  BY <1>2 DEF TypeOK
<1>5. TypeOK'
  BY <1>2, <1>3, <1>4 DEF TypeOK, daemonVars, rowVars, gitVars, procVars, Request
<1>6. WorkKept
  BY <1>2 DEF WorkKept, Recoverable
<1>7. \A t \in Sessions : Spawning(t)' => Spawning(t)
  BY <1>1, <1>3 DEF Spawning
<1>8. RequestsInv'
  BY <1>1, <1>3 DEF OwnInv, RequestsInv
<1>9. MakingInv'
  <2>1. \A q \in Requests : req'[q].at \in Making => q # r /\ req[q].at \in Making
    BY <1>1, <1>3 DEF Making
  <2>2. \A q \in Requests : req[q].at \in Making => req[q].s # s
    BY <1>2 DEF OwnInv, MakingInv
  <2> QED
    BY <1>1, <1>2, <1>3, <2>1, <2>2 DEF OwnInv, MakingInv
<1>10. SpawnInv'
  <2>1. \A q \in Requests : req'[q].at \in Spawns => q # r /\ req'[q] = req[q]
    BY <1>1, <1>3 DEF Spawns
  <2>2. \A q \in Requests : req'[q].at \in {"spawn", "clear"} => q # r /\ req'[q] = req[q]
    BY <1>1, <1>3
  <2> QED
    BY <1>2, <2>1, <2>2 DEF OwnInv, SpawnInv
<1>11. EndingInv'
  <2> SUFFICES ASSUME NEW q \in Requests, req'[q].at \in Ending
               PROVE  /\ (req[q].s \notin early => pump[req[q].s] = "off" /\ ~Spawning(req[q].s))'
                      /\ req'[q].at = "drop" => branch'[req'[q].s] = "none"
    BY DEF EndingInv, Ending
  <2>1. PICK t \in Sessions : t = req'[q].s
    BY <1>8 DEF RequestsInv, Ending
  <2>2. Spawning(req[q].s)' => Spawning(t)
    BY <1>7, <2>1 DEF Spawning
  <2>3. CASE q = r
    BY <1>1, <1>2, <1>3, <2>1, <2>2, <2>3
  <2>4. CASE q # r
    BY <1>2, <1>3, <1>4, <2>1, <2>2, <2>4 DEF OwnInv, EndingInv
  <2> QED
    BY <2>3, <2>4
<1>12. QuietInv'
  BY <1>2, <1>4, <1>7 DEF OwnInv, QuietInv
<1> QED
  BY <1>5, <1>6, <1>8, <1>9, <1>10, <1>11, <1>12 DEF OwnInv

\* The worktree is made while its request has the session to itself.
LEMMA WorktreeMade ==
  ASSUME TypeOK, OwnInv, NEW r \in Requests, req[r].at = "provision", Create(r),
         UNCHANGED <<daemonVars, rowVars, procVars, sweep, early>>
  PROVE  TypeOK' /\ OwnInv' /\ WorkKept
<1>0. PICK s \in Sessions : s = req[r].s
  BY DEF OwnInv, RequestsInv
<1>1. PICK ok \in BOOLEAN : WorktreeAdd(s, ok) /\ IF ok THEN Goto(r, "row") ELSE Done(r)
  BY <1>0 DEF Create
<1>2. PICK d \in Dirs, b \in {"none", "base"} :
        dir' = [dir EXCEPT ![s] = d] /\ branch' = [branch EXCEPT ![s] = b]
  BY <1>1 DEF WorktreeAdd, Dirs
<1>3. /\ dir' \in [Sessions -> Dirs] /\ branch' \in [Sessions -> Branches] /\ branch'[s] = b
      /\ \A t \in Sessions : t # s => branch'[t] = branch[t]
  <2>1. b \in Branches
    BY DEF Branches
  <2> QED
    BY <1>2, <2>1, GitSet
<1>4. /\ req' \in [Requests -> Request] /\ \A q \in Requests : q # r => req'[q] = req[q]
      /\ \/ req'[r].at = "row" /\ req'[r].s = s
         \/ req'[r].at = "idle" /\ req'[r].s = None
  <2>1. "row" \in Ats
    BY DEF Ats
  <2> QED
    BY <1>0, <1>1, <2>1, GoesTo, IsDone
<1>5. /\ row[s] = None /\ child[s] = "none" /\ branch[s] # "ahead"
      /\ \A q \in Requests : q # r => req[q].s # s
  BY <1>0 DEF OwnInv, MakingInv, Making
<1>6. row' = row /\ child' = child /\ pump' = pump /\ early' = early
  BY DEF rowVars, procVars
<1>7. TypeOK'
  BY <1>3, <1>4 DEF TypeOK, daemonVars, rowVars, procVars, Request, Dirs, Branches
<1>8. WorkKept
  <2>1. ~Recoverable(s)
    BY <1>5 DEF Recoverable
  <2>2. ASSUME NEW t \in Sessions, t # s PROVE Recoverable(t) => Recoverable(t)'
    BY <1>3, <1>6, <2>2 DEF Recoverable
  <2> QED
    BY <2>1, <2>2 DEF WorkKept
<1>9. \A t \in Sessions : Spawning(t)' => Spawning(t)
  BY <1>4 DEF Spawning
<1>10. RequestsInv'
  BY <1>4 DEF OwnInv, RequestsInv
<1>11. MakingInv'
  <2>1. ASSUME NEW q \in Requests, q # r, req'[q].at \in Making
        PROVE  /\ row'[req'[q].s] = None /\ child'[req'[q].s] = "none" /\ branch'[req'[q].s] # "ahead"
               /\ \A p \in Requests : p # q => req'[p].s # req'[q].s
    <3>1. req'[q] = req[q] /\ req[q].s \in Sessions /\ req[q].s # s
      BY <1>4, <1>5, <2>1 DEF OwnInv, RequestsInv, Making
    <3>2. /\ row[req[q].s] = None /\ child[req[q].s] = "none" /\ branch[req[q].s] # "ahead"
          /\ \A p \in Requests : p # q => req[p].s # req[q].s
      BY <2>1, <3>1 DEF OwnInv, MakingInv
    <3> QED
      BY <1>3, <1>4, <1>6, <3>1, <3>2, LifecycleAssumption
  <2>2. ASSUME req'[r].at \in Making
        PROVE  /\ row'[req'[r].s] = None /\ child'[req'[r].s] = "none" /\ branch'[req'[r].s] # "ahead"
               /\ \A p \in Requests : p # r => req'[p].s # req'[r].s
    <3>1. req'[r].s = s
      BY <1>4, <2>2 DEF Making
    <3> QED
      BY <1>3, <1>4, <1>5, <1>6, <3>1
  <2> QED
    BY <2>1, <2>2 DEF MakingInv
<1>12. SpawnInv'
  <2>1. \A q \in Requests : req'[q].at \in Spawns => q # r /\ req'[q] = req[q] /\ req[q].s # s
    BY <1>4, <1>5 DEF Spawns
  <2>2. \A q \in Requests : req'[q].at \in {"spawn", "clear"} => q # r /\ req'[q] = req[q] /\ req[q].s # s
    BY <1>4, <1>5
  <2>3. \A q \in Requests : req[q].at \in {"spawn", "clear"} => req[q].s \in Sessions
    BY DEF OwnInv, RequestsInv
  <2> QED
    BY <1>3, <1>6, <2>1, <2>2, <2>3 DEF OwnInv, SpawnInv
<1>13. EndingInv'
  <2> SUFFICES ASSUME NEW q \in Requests, req'[q].at \in Ending
               PROVE  /\ (req[q].s \notin early => pump[req[q].s] = "off" /\ ~Spawning(req[q].s))'
                      /\ req'[q].at = "drop" => branch'[req'[q].s] = "none"
    BY DEF EndingInv, Ending
  <2>1. q # r /\ req'[q] = req[q]
    BY <1>4 DEF Ending
  <2>2. PICK t \in Sessions : t = req[q].s /\ t # s
    BY <1>5, <2>1 DEF OwnInv, RequestsInv, Ending
  <2>3. Spawning(req[q].s)' => Spawning(t)
    BY <1>9, <2>1, <2>2 DEF Spawning
  <2> QED
    BY <1>3, <1>6, <2>1, <2>2, <2>3 DEF OwnInv, EndingInv
<1>14. QuietInv'
  BY <1>6, <1>9 DEF OwnInv, QuietInv
<1> QED
  BY <1>7, <1>8, <1>10, <1>11, <1>12, <1>13, <1>14 DEF OwnInv

\* A row is inserted for a session that had none: nobody else works on it.
LEMMA RowInserted ==
  ASSUME TypeOK, OwnInv, NEW r \in Requests, NEW s \in Sessions, s = req[r].s, req[r].at \in Making,
         NEW x \in Rows, x.archived = "no", row' = [row EXCEPT ![s] = x],
         UNCHANGED <<daemonVars, project, gitVars, procVars, sweep, early>>,
         Goto(r, "spawn") \/ Done(r)
  PROVE  TypeOK' /\ OwnInv' /\ WorkKept
<1>1. /\ req' \in [Requests -> Request] /\ \A q \in Requests : q # r => req'[q] = req[q]
      /\ \/ req'[r].at = "spawn" /\ req'[r].s = s
         \/ req'[r].at = "idle" /\ req'[r].s = None
  <2>1. "spawn" \in Ats
    BY DEF Ats
  <2> QED
    BY <2>1, GoesTo, IsDone
<1>2. /\ row' \in [Sessions -> Rows \cup {None}] /\ row'[s] = x
      /\ \A t \in Sessions : t # s => row'[t] = row[t]
  BY RowSet
<1>3. /\ row[s] = None /\ child[s] = "none" /\ branch[s] # "ahead"
      /\ \A q \in Requests : q # r => req[q].s # s
  BY DEF OwnInv, MakingInv
<1>4. child' = child /\ pump' = pump /\ early' = early /\ branch' = branch
  BY DEF procVars, gitVars
<1>5. TypeOK'
  BY <1>1, <1>2 DEF TypeOK, daemonVars, gitVars, procVars, Request
<1>6. WorkKept
  <2>1. ~Recoverable(s)
    BY <1>3 DEF Recoverable
  <2>2. ASSUME NEW t \in Sessions, t # s PROVE Recoverable(t) => Recoverable(t)'
    BY <1>2, <1>4, <2>2 DEF Recoverable
  <2> QED
    BY <2>1, <2>2 DEF WorkKept
<1>7. \A t \in Sessions : t # s => (Spawning(t)' => Spawning(t))
  BY <1>1, LifecycleAssumption DEF Spawning
<1>8. RequestsInv'
  BY <1>1 DEF OwnInv, RequestsInv
<1>9. MakingInv'
  <2>1. ASSUME NEW q \in Requests, req'[q].at \in Making
        PROVE  q # r /\ req'[q] = req[q] /\ req[q].s \in Sessions /\ req[q].s # s
    BY <1>1, <1>3, <2>1 DEF OwnInv, RequestsInv, Making
  <2>2. ASSUME NEW q \in Requests, req'[q].at \in Making, NEW p \in Requests, p # q
        PROVE  req'[p].s # req'[q].s
    <3>1. req[p].s # req[q].s
      BY <2>1, <2>2 DEF OwnInv, MakingInv
    <3> QED
      BY <1>1, <2>1, <2>2, <3>1, LifecycleAssumption
  <2> QED
    BY <1>2, <1>4, <2>1, <2>2 DEF OwnInv, MakingInv
<1>10. SpawnInv'
  <2>1. \A q \in Requests : q # r => req'[q] = req[q] /\ req'[q].s # s
    BY <1>1, <1>3
  <2>2. \A p, q \in Requests : req'[p].at \in Spawns /\ req'[q].at \in Spawns
                                 /\ req'[p].s = req'[q].s => p = q
    BY <1>1, <2>1 DEF OwnInv, SpawnInv, Spawns
  <2>3. \A q \in Requests : req'[q].at \in {"spawn", "clear"} =>
          child'[req'[q].s] = "none" /\ branch'[req'[q].s] # "ahead"
    BY <1>1, <1>3, <1>4, <2>1 DEF OwnInv, SpawnInv
  <2> QED
    BY <2>2, <2>3 DEF SpawnInv
<1>11. EndingInv'
  <2> SUFFICES ASSUME NEW q \in Requests, req'[q].at \in Ending
               PROVE  /\ (req[q].s \notin early => pump[req[q].s] = "off" /\ ~Spawning(req[q].s))'
                      /\ req'[q].at = "drop" => branch'[req'[q].s] = "none"
    BY DEF EndingInv, Ending
  <2>1. q # r /\ req'[q] = req[q]
    BY <1>1 DEF Ending
  <2>2. PICK t \in Sessions : t = req[q].s /\ t # s
    BY <1>3, <2>1 DEF OwnInv, RequestsInv, Ending
  <2>3. Spawning(req[q].s)' => Spawning(t)
    BY <1>7, <2>1, <2>2 DEF Spawning
  <2> QED
    BY <1>4, <2>1, <2>2, <2>3 DEF OwnInv, EndingInv
<1>12. QuietInv'
  BY <1>2, <1>4, <1>7 DEF OwnInv, QuietInv
<1> QED
  BY <1>5, <1>6, <1>8, <1>9, <1>10, <1>11, <1>12 DEF OwnInv

\* The child runs, then the pump: by the one request that spawns the session.
LEMMA SpawnSteps ==
  ASSUME TypeOK, OwnInv, NEW r \in Requests, UNCHANGED <<daemonVars, rowVars, gitVars, sweep, early>>,
         \/ /\ req[r].at = "spawn" /\ child' = [child EXCEPT ![req[r].s] = "alive"]
            /\ Goto(r, "pid") /\ UNCHANGED <<mem, pump>>
         \/ Register(r)
  PROVE  TypeOK' /\ OwnInv' /\ WorkKept
<1>0. PICK s \in Sessions : s = req[r].s
  BY DEF OwnInv, RequestsInv, Register
<1>1. PICK at \in {"pid", "hook"} : Goto(r, at)
  BY DEF Register
<1>2. /\ req' \in [Requests -> Request] /\ req'[r].at = at /\ req'[r].s = s
      /\ \A q \in Requests : q # r => req'[q] = req[q]
  <2>1. at \in Ats
    BY DEF Ats
  <2> QED
    BY <1>0, <1>1, <2>1, GoesTo
<1>3. req[r].at \in Spawns /\ Spawning(s)
  BY <1>0 DEF Register, Spawns, Spawning
<1>4. /\ child \in [Sessions -> {"none", "alive", "dead"}]
      /\ mem \in [Sessions -> Active \cup {"exited"}] /\ pump \in [Sessions -> {"off", "reading", "exited"}]
  BY DEF TypeOK
<1>5. /\ child' \in [Sessions -> {"none", "alive", "dead"}]
      /\ mem' \in [Sessions -> Active \cup {"exited"}] /\ pump' \in [Sessions -> {"off", "reading", "exited"}]
      /\ \A t \in Sessions : t # s => child'[t] = child[t] /\ pump'[t] = pump[t]
  BY <1>0, <1>4 DEF Register, Active
<1>6. row' = row /\ branch' = branch /\ early' = early
  BY DEF rowVars, gitVars
<1>7. TypeOK'
  BY <1>2, <1>5 DEF TypeOK, daemonVars, rowVars, gitVars, Request
<1>8. WorkKept
  BY <1>6 DEF WorkKept, Recoverable
<1>9. \A t \in Sessions : Spawning(t)' => Spawning(t)
  BY <1>0, <1>2, <1>3 DEF Spawning, Spawns
<1>10. RequestsInv'
  BY <1>2 DEF OwnInv, RequestsInv
<1>11. MakingInv'
  <2>1. ASSUME NEW q \in Requests, req'[q].at \in Making
        PROVE  /\ q # r /\ req'[q] = req[q] /\ req[q].s \in Sessions /\ req[q].s # s
               /\ \A p \in Requests : p # q => req'[p].s = req[p].s
    <3>1. q # r /\ req'[q] = req[q] /\ req[q].s \in Sessions
      BY <1>2, <2>1 DEF OwnInv, RequestsInv, Making
    <3>2. req[q].s # s
      BY <1>0, <2>1, <3>1 DEF OwnInv, MakingInv
    <3> QED
      BY <1>0, <1>2, <3>1, <3>2
  <2> QED
    BY <1>5, <1>6, <2>1 DEF OwnInv, MakingInv
<1>12. SpawnInv'
  <2>1. \A q \in Requests : req'[q].at \in Spawns => req[q].at \in Spawns /\ req'[q].s = req[q].s
    BY <1>0, <1>2, <1>3 DEF Spawns
  <2>2. \A p, q \in Requests : req'[p].at \in Spawns /\ req'[q].at \in Spawns
                                 /\ req'[p].s = req'[q].s => p = q
    BY <2>1 DEF OwnInv, SpawnInv
  <2>3. ASSUME NEW q \in Requests, req'[q].at \in {"spawn", "clear"}
        PROVE  child'[req'[q].s] = "none" /\ branch'[req'[q].s] # "ahead"
    <3>1. q # r /\ req'[q] = req[q] /\ req[q].s \in Sessions
      BY <1>2, <2>3 DEF OwnInv, RequestsInv
    <3>2. req[q].s # s
      BY <1>0, <1>3, <2>3, <3>1 DEF OwnInv, SpawnInv, Spawns
    <3> QED
      BY <1>5, <1>6, <2>3, <3>1, <3>2 DEF OwnInv, SpawnInv
  <2> QED
    BY <2>2, <2>3 DEF SpawnInv
<1>13. EndingInv'
  <2> SUFFICES ASSUME NEW q \in Requests, req'[q].at \in Ending
               PROVE  /\ (req[q].s \notin early => pump[req[q].s] = "off" /\ ~Spawning(req[q].s))'
                      /\ req'[q].at = "drop" => branch'[req'[q].s] = "none"
    BY DEF EndingInv, Ending
  <2>1. q # r /\ req'[q] = req[q]
    BY <1>2 DEF Ending
  <2>2. PICK t \in Sessions : t = req[q].s
    BY <2>1 DEF OwnInv, RequestsInv, Ending
  <2>3. t = s => t \in early
    BY <1>3, <2>1, <2>2 DEF OwnInv, EndingInv
  <2>4. Spawning(req[q].s)' => Spawning(t)
    BY <1>9, <2>1, <2>2 DEF Spawning
  <2> QED
    BY <1>5, <1>6, <2>1, <2>2, <2>3, <2>4 DEF OwnInv, EndingInv
<1>14. QuietInv'
  <2> SUFFICES ASSUME NEW t \in Sessions, row'[t] # None, row'[t].archived # "no", t \notin early'
               PROVE  pump'[t] = "off" /\ row'[t].state = "archived" /\ ~Spawning(t)'
    BY DEF QuietInv
  <2>1. pump[t] = "off" /\ row[t].state = "archived" /\ ~Spawning(t)
    BY <1>6 DEF OwnInv, QuietInv
  <2>2. t # s
    BY <1>3, <2>1
  <2> QED
    BY <1>5, <1>6, <1>9, <2>1, <2>2
<1> QED
  BY <1>7, <1>8, <1>10, <1>11, <1>12, <1>13, <1>14 DEF OwnInv

\* The row is archived by a request that found the session out of the registry.
LEMMA ArchiveRowSteps ==
  ASSUME TypeOK, OwnInv, NEW r \in Requests, ArchiveRow(r)
  PROVE  TypeOK' /\ OwnInv' /\ WorkKept
<1>0. PICK s \in Sessions : s = req[r].s
  BY DEF OwnInv, RequestsInv, ArchiveRow
<1>1. req[r].at = "archive" /\ UNCHANGED <<daemonVars, project, gitVars, procVars, sweep, early>>
  BY DEF ArchiveRow
<1>2. CASE Done(r) /\ UNCHANGED row
  <2>1. TypeOK' /\ Onward /\ WorkKept
    BY <1>1, <1>2, DoneGoesOn, RequestMoves DEF rowVars
  <2> QED
    BY <2>1, GoingOn DEF Onward
<1>3. ASSUME row[s] # None, row' = [row EXCEPT ![s].state = "archived", ![s].archived = "recent"],
             Goto(r, "cleanup") \/ Done(r)
      PROVE  TypeOK' /\ OwnInv' /\ WorkKept
  <2>1. PICK x : x = [row[s] EXCEPT !.state = "archived", !.archived = "recent"]
    OBVIOUS
  <2>2. row[s] \in Rows /\ x \in Rows /\ x.branch = row[s].branch /\ x.state = "archived"
    <3>1. row[s] \in Rows
      BY <1>3 DEF TypeOK
    <3> QED
      BY <2>1, <3>1 DEF Rows, States
  <2>3. /\ row' \in [Sessions -> Rows \cup {None}] /\ row'[s] = x
        /\ \A t \in Sessions : t # s => row'[t] = row[t]
    <3>1. row' = [row EXCEPT ![s] = x]
      BY <1>3, <2>1
    <3> QED
      BY <2>2, <3>1, RowSet
  <2>4. /\ req' \in [Requests -> Request] /\ \A q \in Requests : q # r => req'[q] = req[q]
        /\ \/ req'[r].at = "cleanup" /\ req'[r].s = s
           \/ req'[r].at = "idle" /\ req'[r].s = None
    <3>1. "cleanup" \in Ats
      BY DEF Ats
    <3> QED
      BY <1>0, <1>3, <3>1, GoesTo, IsDone
  <2>5. child' = child /\ pump' = pump /\ early' = early /\ branch' = branch
    BY <1>1 DEF procVars, gitVars
  <2>6. TypeOK'
    BY <1>1, <2>3, <2>4 DEF TypeOK, daemonVars, gitVars, procVars, Request
  <2>7. WorkKept
    <3>1. Recoverable(s) => Recoverable(s)'
      BY <1>3, <2>2, <2>3, <2>5 DEF Recoverable
    <3>2. ASSUME NEW t \in Sessions, t # s PROVE Recoverable(t) => Recoverable(t)'
      BY <2>3, <2>5, <3>2 DEF Recoverable
    <3> QED
      BY <3>1, <3>2 DEF WorkKept
  <2>8. \A t \in Sessions : Spawning(t)' => Spawning(t)
    BY <2>4 DEF Spawning
  <2>9. RequestsInv'
    BY <2>4 DEF OwnInv, RequestsInv
  <2>10. MakingInv'
    <3>1. ASSUME NEW q \in Requests, req'[q].at \in Making
          PROVE  q # r /\ req'[q] = req[q] /\ req[q].s \in Sessions /\ req[q].s # s
      <4>1. q # r /\ req'[q] = req[q] /\ req[q].s \in Sessions
        BY <2>4, <3>1 DEF OwnInv, RequestsInv, Making
      <4> QED
        BY <1>3, <3>1, <4>1 DEF OwnInv, MakingInv
    <3>2. ASSUME NEW q \in Requests, req'[q].at \in Making, NEW p \in Requests, p # q
          PROVE  req'[p].s # req'[q].s
      <4>1. req[p].s # req[q].s
        BY <3>1, <3>2 DEF OwnInv, MakingInv
      <4> QED
        BY <1>0, <2>4, <3>1, <3>2, <4>1, LifecycleAssumption
    <3> QED
      BY <2>3, <2>5, <3>1, <3>2 DEF OwnInv, MakingInv
  <2>11. SpawnInv'
    <3>1. \A q \in Requests : req'[q].at \in Spawns => q # r /\ req'[q] = req[q]
      BY <2>4 DEF Spawns
    <3>2. \A q \in Requests : req'[q].at \in {"spawn", "clear"} => q # r /\ req'[q] = req[q]
      BY <2>4
    <3> QED
      BY <2>5, <3>1, <3>2 DEF OwnInv, SpawnInv
  <2>12. EndingInv'
    <3> SUFFICES ASSUME NEW q \in Requests, req'[q].at \in Ending
                 PROVE  /\ (req[q].s \notin early => pump[req[q].s] = "off" /\ ~Spawning(req[q].s))'
                        /\ req'[q].at = "drop" => branch'[req'[q].s] = "none"
      BY DEF EndingInv, Ending
    <3>1. PICK t \in Sessions : t = req'[q].s /\ t = req[q].s
      BY <1>0, <2>4, <2>9 DEF RequestsInv, Ending
    <3>2. Spawning(req[q].s)' => Spawning(t)
      BY <2>8, <3>1 DEF Spawning
    <3>3. req[q].at \in Ending /\ (req'[q].at = "drop" => req[q].at = "drop")
      BY <1>1, <2>4 DEF Ending
    <3> QED
      BY <2>5, <3>1, <3>2, <3>3 DEF OwnInv, EndingInv
  <2>13. QuietInv'
    <3>1. s \notin early => pump[s] = "off" /\ ~Spawning(s)
      BY <1>0, <1>1 DEF OwnInv, EndingInv, Ending
    <3>2. s \notin early' => pump'[s] = "off" /\ row'[s].state = "archived" /\ ~Spawning(s)'
      BY <2>2, <2>3, <2>5, <2>8, <3>1
    <3> QED
      BY <2>3, <2>5, <2>8, <3>2 DEF OwnInv, QuietInv
  <2> QED
    BY <2>6, <2>7, <2>9, <2>10, <2>11, <2>12, <2>13 DEF OwnInv
<1> QED
  BY <1>0, <1>2, <1>3 DEF ArchiveRow

-----------------------------------------------------------------------------
(* Rows, registry, children and worktrees fit together *)

\* A session whose worktree may go: its row is gone or archived.
Gone(s) == row[s] = None \/ row[s].archived # "no"

\* The registry and the child: a session runs under its pump, a crash, or the request
\* that spawned it.
RunFits(s) ==
  /\ pump[s] # "off" => child[s] # "none"
  /\ pump[s] = "exited" => child[s] = "dead"
  /\ child[s] = "alive" =>
       \/ pump[s] = "reading" \/ s \in orphans
       \/ \E r \in Requests : req[r].s = s /\ req[r].at \in {"pid", "register"}

\* The row of a session that is spawned or runs.
RowFits(s) ==
  /\ \A r \in Requests : req[r].s = s /\ req[r].at \in Spawns =>
       /\ pump[s] = "off"
       /\ row[s] # None => row[s].state \in {"starting", "archived"}
       /\ s \notin early => row[s] # None /\ row[s].archived = "no" /\ row[s].state = "starting"
       /\ req[r].at \in {"pid", "register"} => child[s] # "none"
  /\ pump[s] # "off" /\ s \notin early =>
       row[s] # None /\ row[s].archived = "no" /\ (pump[s] = "reading" => row[s].state \in Active)
  /\ row[s] # None /\ row[s].state = "exited" /\ child[s] = "alive" => ~row[s].pid

\* The worktree: made before the row names it, and up to those that work on what is gone.
TreeFits(s) ==
  /\ row[s] # None /\ row[s].archived = "no" /\ row[s].path
       /\ (child[s] # "none" \/ \E r \in Requests : req[r].s = s /\ req[r].at = "spawn")
     => dir[s] # "none" /\ branch[s] # "none"
  /\ \A r \in Requests : req[r].s = s /\ req[r].at = "row" /\ req[r].wt =>
       dir[s] # "none" /\ branch[s] # "none"
  /\ s \in sweep => Gone(s)
  /\ \A r \in Requests : req[r].s = s =>
       /\ req[r].at \in {"cleanup", "keep", "drop"} => Gone(s)
       /\ req[r].at \in Making => s \notin sweep

Fit(s) == RunFits(s) /\ RowFits(s) /\ TreeFits(s)

\* A daemon that is down has no requests and no pumps.
Down == ~up => /\ \A r \in Requests : req[r].at = "idle"
               /\ \A s \in Sessions : pump[s] = "off"

FitInv == Down /\ \A s \in Sessions : Fit(s)

\* A step that leaves a session, and who works on it, alone.
Apart(t) ==
  /\ row'[t] = row[t] /\ dir'[t] = dir[t] /\ branch'[t] = branch[t]
  /\ child'[t] = child[t] /\ pump'[t] = pump[t]
  /\ (t \in orphans' <=> t \in orphans) /\ (t \in early' <=> t \in early)
  /\ (t \in sweep' => t \in sweep)
  /\ \A r \in Requests : req[r].s = t \/ req'[r].s = t => req'[r] = req[r]

LEMMA FitsStill ==
  ASSUME NEW t \in Sessions, Fit(t), Apart(t)
  PROVE  Fit(t)'
<1>1. RunFits(t)'
  BY DEF Fit, Apart, RunFits
<1>2. RowFits(t)'
  BY DEF Fit, Apart, RowFits
<1>3. TreeFits(t)'
  BY DEF Fit, Apart, TreeFits, Gone
<1> QED
  BY <1>1, <1>2, <1>3 DEF Fit

\* A step of one session, of a daemon that stays up, or is down and starts nothing.
LEMMA OneFits ==
  ASSUME FitInv, NEW s \in Sessions, up' = up, up \/ UNCHANGED <<req, pump>>, \A t \in Sessions : t # s => Apart(t), Fit(s)'
  PROVE  FitInv'
<1>1. ASSUME NEW t \in Sessions PROVE Fit(t)'
  <2>1. CASE t = s
    BY <2>1
  <2>2. CASE t # s
    BY <2>2, FitsStill DEF FitInv
  <2> QED
    BY <2>1, <2>2
<1> QED
  BY <1>1 DEF FitInv, Down

\* What a request's step knows: it works for one session, and other sessions and
\* requests stay as they are.
ByRequest(r, s) ==
  /\ s = req[r].s /\ req[r].at # "idle"
  /\ \/ req'[r].s = s /\ req'[r].at # "idle"
     \/ req'[r].s = None /\ req'[r].at = "idle"
  /\ \A q \in Requests : q # r => req'[q] = req[q]
  /\ up' = up /\ orphans' = orphans /\ early' = early /\ sweep' = sweep
  /\ \A t \in Sessions : t # s =>
       /\ row'[t] = row[t] /\ dir'[t] = dir[t] /\ branch'[t] = branch[t]
       /\ child'[t] = child[t] /\ pump'[t] = pump[t]

LEMMA RequestFits ==
  ASSUME FitInv, NEW r \in Requests, NEW s \in Sessions, ByRequest(r, s), Fit(s)'
  PROVE  FitInv'
<1>1. up
  BY DEF FitInv, Down, ByRequest
<1>2. \A t \in Sessions : t # s => Apart(t)
  BY LifecycleAssumption DEF ByRequest, Apart
<1> QED
  BY <1>1, <1>2, OneFits DEF ByRequest

\* A request that goes on or ends while its session stays as it is.
LEMMA MovesFit ==
  ASSUME OwnInv, FitInv, NEW r \in Requests, NEW s \in Sessions, ByRequest(r, s),
         UNCHANGED <<row, dir, branch, child, pump>>,
         \/ req'[r].at = "idle" /\ req[r].at \notin {"pid", "register"}
         \/ /\ req[r].at \in Making /\ req'[r].at \in Making
            /\ req'[r].at = "row" => req'[r].wt = FALSE
         \/ req[r].at = "snapshot" /\ req'[r].at = "archive"
  PROVE  FitInv'
<1>1. Fit(s)
  BY DEF FitInv
<1>2. RunFits(s)'
  BY <1>1, LifecycleAssumption DEF ByRequest, Fit, RunFits, Making
<1>3. RowFits(s)'
  BY <1>1, LifecycleAssumption DEF ByRequest, Fit, RowFits, Making, Spawns
<1>4. TreeFits(s)'
  BY <1>1, LifecycleAssumption DEF ByRequest, Fit, TreeFits, Gone, Making
<1> QED
  BY <1>2, <1>3, <1>4, RequestFits DEF Fit

\* The row of the request's session changes in what its spawn and its worktree do not
\* depend on, or goes.
LEMMA RowStepsFit ==
  ASSUME TypeOK, OwnInv, FitInv, NEW r \in Requests,
         ClearFailed(r) \/ UpdatePid(r) \/ Hook(r) \/ ArchiveClear(r) \/ DeleteRow(r)
  PROVE  FitInv'
<1>0. PICK s \in Sessions : s = req[r].s
  BY DEF OwnInv, RequestsInv, ClearFailed, UpdatePid, Hook, ArchiveClear, DeleteRow
<1>1. UNCHANGED <<up, orphans, dir, branch, child, pump, sweep, early>>
  BY DEF ClearFailed, UpdatePid, Hook, ArchiveClear, DeleteRow, daemonVars, gitVars, procVars
<1>2. row \in [Sessions -> Rows \cup {None}]
  BY DEF TypeOK
<1>3. /\ ByRequest(r, s)
      /\ \/ req[r].at = "pid" /\ req'[r].at = "register" /\ req'[r].s = s
         \/ req[r].at \in {"clear", "hook", "keep", "drop", "delete"} /\ req'[r].at = "idle" /\ req'[r].s = None
      /\ \/ row'[s] = None /\ req[r].at = "delete"
         \/ row'[s] = row[s]
         \/ /\ row[s] # None /\ row'[s] # None /\ row'[s].archived = row[s].archived
            /\ row'[s].state = row[s].state /\ (row'[s].path => row[s].path)
            /\ row'[s].pid = row[s].pid \/ req[r].at = "pid"
  <2>0. \/ req[r].at = "pid" /\ Goto(r, "register")
        \/ req[r].at \in {"clear", "hook", "keep", "drop", "delete"} /\ Done(r)
    BY DEF ClearFailed, UpdatePid, Hook, ArchiveClear, DeleteRow
  <2>7. ASSUME \A t \in Sessions : t # s => row'[t] = row[t]
        PROVE  /\ ByRequest(r, s)
               /\ \/ req[r].at = "pid" /\ req'[r].at = "register" /\ req'[r].s = s
                  \/ req[r].at \in {"clear", "hook", "keep", "drop", "delete"} /\ req'[r].at = "idle" /\ req'[r].s = None
    <3>1. "register" \in Ats
      BY DEF Ats
    <3>2. ASSUME Goto(r, "register")
          PROVE  req'[r].at = "register" /\ req'[r].s = s /\ \A q \in Requests : q # r => req'[q] = req[q]
      BY <1>0, <3>1, <3>2, GoesTo
    <3>3. ASSUME Done(r)
          PROVE  req'[r].at = "idle" /\ req'[r].s = None /\ \A q \in Requests : q # r => req'[q] = req[q]
      BY <3>3, IsDone
    <3> QED
      BY <1>0, <1>1, <2>0, <2>7, <3>2, <3>3 DEF ByRequest
  <2>1. \/ row' = row
        \/ req[r].at = "delete" /\ row' = [row EXCEPT ![s] = None]
        \/ \E keep \in BOOLEAN : ClearWorktree(s, keep)
        \/ /\ row[s] # None
           /\ \/ req[r].at = "pid" /\ row' = [row EXCEPT ![s].pid = TRUE]
              \/ row' = [row EXCEPT ![s].hook = TRUE]
    BY <1>0 DEF ClearFailed, UpdatePid, Hook, ArchiveClear, DeleteRow, NoteHook
  <2>2. ASSUME NEW x \in Rows, row' = [row EXCEPT ![s] = x]
        PROVE  row'[s] = x /\ x # None /\ \A t \in Sessions : t # s => row'[t] = row[t]
    BY <2>2, RowSet, RowAssumption
  <2>3. CASE \E keep \in BOOLEAN : ClearWorktree(s, keep)
    <3>1. PICK keep \in BOOLEAN : ClearWorktree(s, keep)
      BY <2>3
    <3>2. /\ row' \in [Sessions -> Rows \cup {None}]
          /\ \A t \in Sessions : t # s => row'[t] = row[t]
          /\ row[s] = None => row'[s] = None
          /\ row[s] # None => /\ row'[s].archived = row[s].archived /\ row'[s].state = row[s].state
                              /\ row'[s].pid = row[s].pid /\ (row'[s].path => row[s].path)
      BY <3>1, Cleared
    <3>3. row[s] # None => row'[s] # None
      <4>1. CASE row' = row
        BY <4>1
      <4>2. CASE /\ row[s] # None
                 /\ row' = [row EXCEPT ![s].path = FALSE, ![s].branch = keep /\ @]
        <5>1. PICK x : x = row'[s]
          OBVIOUS
        <5>2. x = [row[s] EXCEPT !.path = FALSE, !.branch = keep /\ @]
          BY <1>2, <4>2, <5>1
        <5>3. x \in Rows
          BY <1>2, <4>2, <5>2 DEF Rows
        <5> QED
          BY <5>1, <5>3, RowAssumption
      <4> QED
        BY <3>1, <4>1, <4>2 DEF ClearWorktree
    <3> QED
      BY <2>7, <3>2, <3>3
  <2>4. CASE row' = row
    BY <2>4, <2>7
  <2>5. CASE req[r].at = "delete" /\ row' = [row EXCEPT ![s] = None]
    <3>1. row'[s] = None /\ \A t \in Sessions : t # s => row'[t] = row[t]
      BY <2>5, RowSet
    <3> QED
      BY <2>5, <2>7, <3>1
  <2>6. CASE /\ row[s] # None
             /\ \/ req[r].at = "pid" /\ row' = [row EXCEPT ![s].pid = TRUE]
                \/ row' = [row EXCEPT ![s].hook = TRUE]
    <3>1. PICK x : /\ row' = [row EXCEPT ![s] = x]
                   /\ \/ req[r].at = "pid" /\ x = [row[s] EXCEPT !.pid = TRUE]
                      \/ x = [row[s] EXCEPT !.hook = TRUE]
      BY <2>6
    <3>2. /\ x \in Rows /\ x.archived = row[s].archived /\ x.state = row[s].state
          /\ x.path = row[s].path /\ (x.pid = row[s].pid \/ req[r].at = "pid")
      <4>1. row[s] \in Rows
        BY <1>2, <2>6
      <4>2. CASE x = [row[s] EXCEPT !.hook = TRUE]
        BY <4>1, <4>2 DEF Rows
      <4>3. CASE req[r].at = "pid" /\ x = [row[s] EXCEPT !.pid = TRUE]
        BY <4>1, <4>3 DEF Rows
      <4> QED
        BY <3>1, <4>2, <4>3
    <3> QED
      BY <2>2, <2>6, <2>7, <3>1, <3>2
  <2> QED
    BY <2>1, <2>3, <2>4, <2>5, <2>6
<1>4. Fit(s) /\ dir'[s] = dir[s] /\ branch'[s] = branch[s] /\ child'[s] = child[s] /\ pump'[s] = pump[s]
  BY <1>1 DEF FitInv
<1>5. row'[s] = None => s \in early \/ row[s] = None \/ (pump[s] = "off" /\ ~Spawning(s))
  BY <1>0, <1>3 DEF OwnInv, EndingInv, Ending
<1>6. RunFits(s)'
  BY <1>3, <1>4 DEF ByRequest, Fit, RunFits
<1>7. RowFits(s)'
  <2>1. ASSUME NEW q \in Requests, req'[q].s = s, req'[q].at \in Spawns
        PROVE  /\ pump'[s] = "off"
               /\ row'[s] # None => row'[s].state \in {"starting", "archived"}
               /\ s \notin early' => row'[s] # None /\ row'[s].archived = "no" /\ row'[s].state = "starting"
               /\ req'[q].at \in {"pid", "register"} => child'[s] # "none"
    <3>1. req[q].s = s /\ req[q].at \in Spawns /\ (req'[q].at \in {"pid", "register"} => req[q].at \in {"pid", "register"})
      BY <1>0, <1>3, <2>1 DEF ByRequest, Spawns
    <3>2. Spawning(s)
      BY <3>1 DEF Spawning, Spawns
    <3> QED
      BY <1>3, <1>4, <1>5, <3>1, <3>2 DEF ByRequest, Fit, RowFits
  <2>2. pump'[s] # "off" /\ s \notin early' =>
          row'[s] # None /\ row'[s].archived = "no" /\ (pump'[s] = "reading" => row'[s].state \in Active)
    BY <1>3, <1>4, <1>5 DEF ByRequest, Fit, RowFits
  <2>3. row'[s] # None /\ row'[s].state = "exited" /\ child'[s] = "alive" => ~row'[s].pid
    <3>1. req[r].at = "pid" /\ row[s] # None => row[s].state # "exited"
      BY <1>0, <1>4 DEF Fit, RowFits, Spawns
    <3> QED
      BY <1>3, <1>4, <3>1 DEF ByRequest, Fit, RowFits
  <2> QED
    BY <2>1, <2>2, <2>3 DEF RowFits
<1>8. TreeFits(s)'
  <2>1. \A q \in Requests : req'[q].s = s => req'[q] = req[q] \/ (q = r /\ req'[q].at = "register")
    BY <1>3, LifecycleAssumption DEF ByRequest
  <2>2. Gone(s) => Gone(s)'
    BY <1>3 DEF Gone
  <2>3. row'[s] # None => row[s] # None /\ row'[s].archived = row[s].archived /\ (row'[s].path => row[s].path)
    BY <1>3
  <2> QED
    BY <1>3, <1>4, <2>1, <2>2, <2>3 DEF ByRequest, Fit, TreeFits, Making
<1> QED
  BY <1>3, <1>6, <1>7, <1>8, RequestFits DEF Fit

\* What ends or goes on, as ByRequest sees it.
LEMMA EndsBy ==
  ASSUME TypeOK, NEW r \in Requests, NEW s \in Sessions, s = req[r].s, req[r].at # "idle",
         UNCHANGED <<up, orphans, early, sweep>>,
         \A t \in Sessions : t # s =>
           /\ row'[t] = row[t] /\ dir'[t] = dir[t] /\ branch'[t] = branch[t]
           /\ child'[t] = child[t] /\ pump'[t] = pump[t]
  PROVE  /\ Done(r) => ByRequest(r, s) /\ req'[r].at = "idle"
         /\ \A at \in Ats \ {"idle"} : Goto(r, at) =>
              ByRequest(r, s) /\ req'[r].at = at /\ req'[r].wt = req[r].wt /\ req'[r].s = s
<1>1. ASSUME Done(r) PROVE ByRequest(r, s) /\ req'[r].at = "idle"
  BY <1>1, IsDone DEF ByRequest
<1>2. ASSUME NEW at \in Ats \ {"idle"}, Goto(r, at)
      PROVE  ByRequest(r, s) /\ req'[r].at = at /\ req'[r].wt = req[r].wt /\ req'[r].s = s
  BY <1>2, GoesTo DEF ByRequest
<1> QED
  BY <1>1, <1>2

\* Requests that look something up, provision nothing, or fail with nothing to roll back.
LEMMA LookupsFit ==
  ASSUME TypeOK, OwnInv, FitInv, NEW r \in Requests, req[r].at # "idle",
         UNCHANGED <<daemonVars, row, gitVars, procVars, sweep, early>>,
         \/ Done(r) /\ req[r].at \notin {"pid", "register"}
         \/ req[r].at \in Making /\ \E at \in Making : Goto(r, at) /\ (at = "row" => ~req[r].wt)
         \/ req[r].at = "snapshot" /\ \E p \in BOOLEAN : req' = [req EXCEPT ![r].at = "archive", ![r].path = p]
  PROVE  FitInv'
<1>0. PICK s \in Sessions : s = req[r].s
  BY DEF OwnInv, RequestsInv
<1>1. UNCHANGED <<row, dir, branch, child, pump, up, orphans, early, sweep>>
  BY DEF daemonVars, gitVars, procVars
<1>2. CASE Done(r) /\ req[r].at \notin {"pid", "register"}
  BY <1>0, <1>1, <1>2, EndsBy, MovesFit
<1>3. CASE req[r].at \in Making /\ \E at \in Making : Goto(r, at) /\ (at = "row" => ~req[r].wt)
  <2>1. PICK at \in Making : Goto(r, at) /\ (at = "row" => ~req[r].wt)
    BY <1>3
  <2>2. at \in Ats \ {"idle"}
    BY DEF Making, Ats
  <2>3. ByRequest(r, s) /\ req'[r].at = at /\ req'[r].wt = req[r].wt
    BY <1>0, <1>1, <2>1, <2>2, EndsBy
  <2>4. req[r].wt \in BOOLEAN
    BY DEF TypeOK
  <2> QED
    BY <1>1, <1>3, <2>1, <2>3, <2>4, MovesFit
<1>4. CASE req[r].at = "snapshot" /\ \E p \in BOOLEAN : req' = [req EXCEPT ![r].at = "archive", ![r].path = p]
  <2>1. PICK p \in BOOLEAN : req' = [req EXCEPT ![r].at = "archive", ![r].path = p]
    BY <1>4
  <2>2. /\ req'[r].at = "archive" /\ req'[r].s = s
        /\ \A q \in Requests : q # r => req'[q] = req[q]
    <3>1. req[r] \in Request /\ req \in [Requests -> Request]
      BY DEF TypeOK, Request
    <3>2. PICK x : x = [req[r] EXCEPT !.at = "archive", !.path = p]
      OBVIOUS
    <3>3. x \in Request /\ x.at = "archive" /\ x.s = req[r].s
      BY <3>1, <3>2 DEF Request, Ats
    <3>4. req' = [req EXCEPT ![r] = x]
      BY <2>1, <3>1, <3>2
    <3> QED
      BY <1>0, <3>3, <3>4, Requested
  <2>3. ByRequest(r, s)
    BY <1>0, <1>1, <1>4, <2>2 DEF ByRequest
  <2> QED
    BY <1>1, <1>4, <2>2, <2>3, MovesFit
<1> QED
  BY <1>2, <1>3, <1>4

\* Git works for a request: on an id that is being made, on a spawn that failed, or on an
\* archived session.
LEMMA GitFits ==
  ASSUME TypeOK, OwnInv, FitInv, NEW r \in Requests, NEW s \in Sessions, ByRequest(r, s),
         UNCHANGED <<row, child, pump>>,
         \/ req[r].at \in Making /\ req'[r].at = "idle"
         \/ req[r].at \in Making /\ req'[r].at = "row" /\ dir'[s] # "none" /\ branch'[s] # "none"
         \/ req[r].at = "spawn" /\ req'[r].at = "clear"
         \/ req[r].at = "cleanup" /\ req'[r].at \in {"idle", "keep", "drop"}
  PROVE  FitInv'
<1>1. Fit(s)
  BY DEF FitInv
<1>2. RunFits(s)'
  BY <1>1, LifecycleAssumption DEF ByRequest, Fit, RunFits, Making
<1>3. RowFits(s)'
  BY <1>1, LifecycleAssumption DEF ByRequest, Fit, RowFits, Making, Spawns
<1>4. \A q \in Requests : req[q].at \in Making /\ req[q].s = s => q = r
  BY DEF OwnInv, MakingInv, ByRequest
<1>5. req[r].at = "spawn" => child[s] = "none" /\ \A q \in Requests : req[q].s = s /\ req[q].at = "spawn" => q = r
  BY DEF OwnInv, SpawnInv, ByRequest, Spawns
<1>6. req[r].at \in Making => row[s] = None /\ s \notin sweep
  BY <1>1 DEF OwnInv, MakingInv, ByRequest, Fit, TreeFits
<1>7. req[r].at = "cleanup" => Gone(s)
  BY <1>1 DEF ByRequest, Fit, TreeFits
<1>8. ASSUME row[s] # None, row[s].archived = "no"
      PROVE  ~(child'[s] # "none" \/ \E q \in Requests : req'[q].s = s /\ req'[q].at = "spawn")
  <2>1. req[r].at = "spawn" /\ req'[r].at = "clear"
    BY <1>6, <1>7, <1>8 DEF Gone
  <2> QED
    BY <1>5, <2>1 DEF ByRequest
<1>9. \A q \in Requests : req'[q].s = s /\ req'[q].at = "row" => dir'[s] # "none" /\ branch'[s] # "none"
  BY <1>4, LifecycleAssumption DEF ByRequest, Making
<1>10. s \in sweep' => Gone(s)'
  BY <1>1 DEF ByRequest, Fit, TreeFits, Gone
<1>11. \A q \in Requests : req'[q].s = s =>
         /\ req'[q].at \in {"cleanup", "keep", "drop"} => Gone(s)'
         /\ req'[q].at \in Making => s \notin sweep'
  <2>1. Gone(s) => Gone(s)'
    BY DEF Gone
  <2>2. \A q \in Requests : q # r /\ req'[q].s = s =>
         /\ req'[q].at \in {"cleanup", "keep", "drop"} => Gone(s)'
         /\ req'[q].at \in Making => s \notin sweep'
    BY <1>1, <2>1 DEF ByRequest, Fit, TreeFits
  <2>3. /\ req'[r].at \in {"cleanup", "keep", "drop"} => Gone(s)'
        /\ req'[r].at \in Making => s \notin sweep'
    BY <1>6, <1>7, <2>1 DEF ByRequest, Making
  <2> QED
    BY <2>2, <2>3
<1>12. TreeFits(s)'
  BY <1>8, <1>9, <1>10, <1>11 DEF TreeFits
<1> QED
  BY <1>2, <1>3, <1>12, RequestFits DEF Fit

\* A row is inserted: starting, for a request that goes on to spawn, or imported.
LEMMA InsertFits ==
  ASSUME TypeOK, OwnInv, FitInv, NEW r \in Requests, NEW s \in Sessions, ByRequest(r, s),
         UNCHANGED <<dir, branch, child, pump>>, req[r].at \in Making,
         row'[s] # None, row'[s].archived = "no",
         \/ /\ req[r].at = "row" /\ req'[r].at = "spawn" /\ row'[s].state = "starting"
            /\ row'[s].path = req[r].wt
         \/ req'[r].at = "idle"
  PROVE  FitInv'
<1>1. Fit(s)
  BY DEF FitInv
<1>2. child[s] = "none" /\ pump[s] = "off"
  BY <1>1 DEF OwnInv, MakingInv, ByRequest, Fit, RunFits
<1>3. \A q \in Requests : q # r => req'[q] = req[q] /\ req[q].s # s
  BY DEF OwnInv, MakingInv, ByRequest
<1>4. s \notin sweep
  BY <1>1 DEF ByRequest, Fit, TreeFits
<1>5. RunFits(s)'
  BY <1>2 DEF RunFits
<1>6. RowFits(s)'
  BY <1>2, <1>3, LifecycleAssumption DEF RowFits, ByRequest, Spawns
<1>7. TreeFits(s)'
  <2>1. ASSUME NEW q \in Requests, req'[q].s = s
        PROVE  q = r /\ req'[q].at = "spawn" /\ req[r].at = "row" /\ row'[s].path = req[r].wt
    BY <1>3, <2>1, LifecycleAssumption DEF ByRequest
  <2>2. req[r].at = "row" /\ req[r].wt => dir[s] # "none" /\ branch[s] # "none"
    BY <1>1 DEF Fit, TreeFits, ByRequest
  <2> QED
    BY <1>2, <1>4, <2>1, <2>2 DEF TreeFits, ByRequest, Making
<1> QED
  BY <1>5, <1>6, <1>7, RequestFits DEF Fit

\* The child runs: its request is about to register it.
LEMMA ChildFits ==
  ASSUME TypeOK, OwnInv, FitInv, NEW r \in Requests, NEW s \in Sessions, ByRequest(r, s),
         UNCHANGED <<row, dir, branch, pump>>, req[r].at = "spawn", req'[r].at = "pid", req'[r].s = s,
         child'[s] = "alive"
  PROVE  FitInv'
<1>1. Fit(s)
  BY DEF FitInv
<1>2. RunFits(s)'
  BY <1>1 DEF RunFits, RowFits, Fit, ByRequest, Spawns
<1>3. RowFits(s)'
  <2>1. row[s] # None => row[s].state # "exited"
    BY <1>1 DEF Fit, RowFits, ByRequest, Spawns
  <2> QED
    BY <1>1, <2>1 DEF RowFits, Fit, ByRequest, Spawns
<1>4. TreeFits(s)'
  <2>1. row[s] # None /\ row[s].archived = "no" /\ row[s].path => dir[s] # "none" /\ branch[s] # "none"
    BY <1>1 DEF Fit, TreeFits, ByRequest
  <2>2. \A q \in Requests : req'[q] = req[q] \/ req'[q].at = "pid"
    BY DEF ByRequest
  <2> QED
    BY <1>1, <2>1, <2>2 DEF TreeFits, Fit, Gone, ByRequest, Making
<1> QED
  BY <1>2, <1>3, <1>4, RequestFits DEF Fit

\* The pump takes the child over.
LEMMA RegisterFits ==
  ASSUME TypeOK, OwnInv, FitInv, NEW r \in Requests, NEW s \in Sessions, ByRequest(r, s),
         UNCHANGED <<row, dir, branch, child>>, req[r].at = "register", req'[r].at = "hook",
         pump'[s] = "reading"
  PROVE  FitInv'
<1>1. Fit(s)
  BY DEF FitInv
<1>2. \A q \in Requests : req'[q].s = s => req'[q].at \notin Spawns
  BY DEF OwnInv, SpawnInv, ByRequest, Spawns
<1>3. /\ child[s] # "none"
      /\ s \notin early => row[s] # None /\ row[s].archived = "no" /\ row[s].state = "starting"
  BY <1>1 DEF Fit, RowFits, ByRequest, Spawns
<1>4. RunFits(s)'
  BY <1>3 DEF RunFits
<1>5. RowFits(s)'
  BY <1>1, <1>2, <1>3 DEF RowFits, Fit, ByRequest, Active
<1>6. TreeFits(s)'
  <2>1. \A q \in Requests : req'[q] = req[q] \/ req'[q].at = "hook"
    BY DEF ByRequest
  <2> QED
    BY <1>1, <2>1 DEF TreeFits, Fit, Gone, ByRequest, Making
<1> QED
  BY <1>4, <1>5, <1>6, RequestFits DEF Fit

\* The row is archived, of a session that has no runtime or whose archive came early.
LEMMA ArchiveFits ==
  ASSUME TypeOK, OwnInv, FitInv, NEW r \in Requests, NEW s \in Sessions, ByRequest(r, s),
         UNCHANGED <<dir, branch, child, pump>>, req[r].at = "archive", req'[r].at \in {"idle", "cleanup"},
         row'[s] # None, row'[s].archived # "no", row'[s].state = "archived"
  PROVE  FitInv'
<1>1. Fit(s)
  BY DEF FitInv
<1>2. s \in early \/ (pump[s] = "off" /\ ~Spawning(s))
  BY DEF OwnInv, EndingInv, ByRequest, Ending
<1>3. RunFits(s)'
  BY <1>1, LifecycleAssumption DEF RunFits, Fit, ByRequest
<1>4. RowFits(s)'
  <2>1. ASSUME NEW q \in Requests, req'[q].s = s, req'[q].at \in Spawns
        PROVE  req'[q] = req[q] /\ Spawning(s)
    <3>1. req'[q] = req[q]
      BY <2>1 DEF ByRequest, Spawns
    <3> QED
      BY <2>1, <3>1 DEF Spawning, Spawns
  <2> QED
    BY <1>1, <1>2, <2>1 DEF RowFits, Fit, ByRequest
<1>5. TreeFits(s)'
  <2>1. \A q \in Requests : req'[q] = req[q] \/ req'[q].at \in {"idle", "cleanup"}
    BY DEF ByRequest
  <2> QED
    BY <1>1, <2>1 DEF TreeFits, Fit, Gone, ByRequest, Making
<1> QED
  BY <1>3, <1>4, <1>5, RequestFits DEF Fit

\* The steps of a request.
LEMMA RequestStepsFit ==
  ASSUME TypeOK, OwnInv, FitInv, NEW r \in Requests, RequestStep(r)
  PROVE  FitInv'
<1>0. PICK s \in Sessions : s = req[r].s
  BY DEF OwnInv, RequestsInv, RequestStep, CreateSteps, OtherSteps, EnsureProject, Provision, InsertRow,
         Spawn, ClearFailed, UpdatePid, Register, Hook, ArchiveSnapshot, ArchiveRow, ArchiveCleanup,
         ArchiveClear, DeleteRow, ImportFind, ImportRow
<1>1. \A at \in Making \cup Spawns \cup Ending \cup {"hook"} : at \in Ats \ {"idle"}
  BY DEF Ats, Making, Spawns, Ending
<1>2. CASE \/ EnsureProject(r, "lookup", "project", "provision")
           \/ EnsureProject(r, "findProject", "importProject", "import") \/ ImportFind(r)
  <2>1. /\ UNCHANGED <<daemonVars, row, gitVars, procVars, sweep, early>> /\ req[r].at \in Making
        /\ Done(r) \/ \E at \in Making : Goto(r, at) /\ at # "row"
    BY <1>2 DEF EnsureProject, ImportFind, rowVars, Making
  <2> QED
    BY <2>1, LookupsFit DEF Making
<1>3. CASE ClearFailed(r) \/ UpdatePid(r) \/ Hook(r) \/ ArchiveClear(r) \/ DeleteRow(r)
  BY <1>3, RowStepsFit
<1>4. CASE ArchiveSnapshot(r)
  <2>1. UNCHANGED <<daemonVars, row, gitVars, procVars, sweep, early>> /\ req[r].at = "snapshot"
    BY <1>4 DEF ArchiveSnapshot, rowVars
  <2>2. CASE Done(r)
    BY <2>1, <2>2, LookupsFit
  <2>3. CASE req' = [req EXCEPT ![r].at = "archive", ![r].path = row[s] # None /\ row[s].path]
    <3>1. PICK p \in BOOLEAN : p = (row[s] # None /\ row[s].path)
      BY Zenon
    <3>2. req' = [req EXCEPT ![r].at = "archive", ![r].path = p]
      <4>1. req \in [Requests -> Request]
        BY DEF TypeOK, Request
      <4> QED
        BY <2>3, <3>1, <4>1 DEF Request
    <3> QED
      BY <2>1, <3>2, LookupsFit
  <2> QED
    BY <1>0, <1>4, <2>2, <2>3 DEF ArchiveSnapshot
<1>5. CASE Provision(r)
  <2>1. /\ req[r].at = "provision" /\ UNCHANGED <<daemonVars, rowVars, procVars, sweep, early>>
        /\ UNCHANGED <<up, orphans, early, sweep, row, child, pump>>
    BY <1>5 DEF Provision, daemonVars, rowVars, procVars
  <2>2. CASE UNCHANGED gitVars /\ (Done(r) \/ (~req[r].wt /\ Goto(r, "row")))
    BY <2>1, <2>2, LookupsFit DEF rowVars, Making
  <2>3. CASE Create(r)
    <3>1. PICK ok \in BOOLEAN : WorktreeAdd(s, ok) /\ IF ok THEN Goto(r, "row") ELSE Done(r)
      BY <1>0, <2>3 DEF Create
    <3>2. PICK d \in Dirs, b \in Branches :
            /\ dir' = [dir EXCEPT ![s] = d] /\ branch' = [branch EXCEPT ![s] = b]
            /\ ok => d # "none" /\ b # "none"
      BY <3>1 DEF WorktreeAdd, Dirs, Branches
    <3>3. /\ dir'[s] = d /\ branch'[s] = b
          /\ \A t \in Sessions : t # s => dir'[t] = dir[t] /\ branch'[t] = branch[t]
      BY <3>2, GitSet
    <3>4. CASE Done(r)
      <4>1. ByRequest(r, s) /\ req'[r].at = "idle"
        BY <1>0, <2>1, <3>3, <3>4, EndsBy
      <4> QED
        BY <2>1, <4>1, GitFits DEF Making
    <3>5. CASE ok /\ Goto(r, "row")
      <4>1. ByRequest(r, s) /\ req'[r].at = "row"
        BY <1>0, <1>1, <2>1, <3>3, <3>5, EndsBy DEF Making
      <4> QED
        BY <2>1, <3>2, <3>3, <3>5, <4>1, GitFits DEF Making
    <3> QED
      BY <3>1, <3>4, <3>5
  <2> QED
    BY <1>5, <2>2, <2>3 DEF Provision, NoBaseBranch
<1>6. ASSUME Rollback(s), UNCHANGED <<up, orphans, early, sweep, row, child, pump>>,
             \/ req[r].at = "row" /\ Done(r)
             \/ req[r].at = "spawn" /\ Goto(r, "clear")
      PROVE  FitInv'
  <2>1. PICK o \in Cleanup(s, "Force") :
          dir' = [dir EXCEPT ![s] = o.dir] /\ branch' = [branch EXCEPT ![s] = o.branch]
    BY <1>6 DEF Rollback
  <2>2. o.dir \in Dirs /\ o.branch \in Branches
    BY CleanupLeaves
  <2>3. \A t \in Sessions : t # s => dir'[t] = dir[t] /\ branch'[t] = branch[t]
    BY <2>1, <2>2, GitSet
  <2>4. CASE req[r].at = "row" /\ Done(r)
    <3>1. ByRequest(r, s) /\ req'[r].at = "idle"
      BY <1>0, <1>6, <2>3, <2>4, EndsBy
    <3> QED
      BY <1>6, <2>4, <3>1, GitFits DEF Making
  <2>5. CASE req[r].at = "spawn" /\ Goto(r, "clear")
    <3>1. ByRequest(r, s) /\ req'[r].at = "clear"
      BY <1>0, <1>1, <1>6, <2>3, <2>5, EndsBy DEF Spawns
    <3> QED
      BY <1>6, <2>5, <3>1, GitFits
  <2> QED
    BY <1>6, <2>4, <2>5
<1>7. ASSUME req[r].at \in Making, NEW x \in Rows, x.archived = "no", row' = [row EXCEPT ![s] = x],
             UNCHANGED <<up, orphans, early, sweep, dir, branch, child, pump>>,
             \/ Done(r)
             \/ req[r].at = "row" /\ Goto(r, "spawn") /\ x.state = "starting" /\ x.path = req[r].wt
      PROVE  FitInv'
  <2>1. row'[s] = x /\ x # None /\ \A t \in Sessions : t # s => row'[t] = row[t]
    BY <1>7, RowSet, RowAssumption
  <2>2. CASE Done(r)
    <3>1. ByRequest(r, s) /\ req'[r].at = "idle"
      BY <1>0, <1>7, <2>1, <2>2, EndsBy DEF Making
    <3> QED
      BY <1>7, <2>1, <3>1, InsertFits
  <2>3. CASE req[r].at = "row" /\ Goto(r, "spawn") /\ x.state = "starting" /\ x.path = req[r].wt
    <3>1. ByRequest(r, s) /\ req'[r].at = "spawn"
      BY <1>0, <1>1, <1>7, <2>1, <2>3, EndsBy DEF Spawns
    <3> QED
      BY <1>7, <2>1, <2>3, <3>1, InsertFits
  <2> QED
    BY <1>7, <2>2, <2>3
<1>8. CASE InsertRow(r)
  <2>1. /\ req[r].at = "row" /\ UNCHANGED <<daemonVars, project, procVars, sweep, early>>
        /\ UNCHANGED <<up, orphans, early, sweep, child, pump>>
    BY <1>8 DEF InsertRow, daemonVars, procVars
  <2>2. CASE Done(r) /\ Rollback(s) /\ UNCHANGED row
    BY <1>6, <2>1, <2>2
  <2>3. CASE Done(r) /\ UNCHANGED gitVars /\ UNCHANGED row
    BY <2>1, <2>3, LookupsFit
  <2>4. CASE /\ row' = [row EXCEPT ![s] = NewRow(req[r].wt, "starting", "user")]
             /\ Goto(r, "spawn") /\ UNCHANGED gitVars
    <3>1. PICK x : x = NewRow(req[r].wt, "starting", "user")
      OBVIOUS
    <3>2. x \in Rows /\ x.archived = "no" /\ x.state = "starting" /\ x.path = req[r].wt
      <4>1. req[r].wt \in BOOLEAN
        BY DEF TypeOK
      <4> QED
        BY <3>1, <4>1 DEF NewRow, Rows, States
    <3>3. row' = [row EXCEPT ![s] = x] /\ UNCHANGED <<dir, branch>> /\ req[r].at \in Making
      BY <2>1, <2>4, <3>1 DEF gitVars, Making
    <3> QED
      BY <1>7, <2>1, <2>4, <3>2, <3>3
  <2> QED
    BY <1>0, <1>8, <2>2, <2>3, <2>4 DEF InsertRow
<1>9. CASE Spawn(r)
  <2>1. /\ req[r].at = "spawn" /\ UNCHANGED <<daemonVars, rowVars, mem, pump, sweep, early>>
        /\ UNCHANGED <<up, orphans, early, sweep, row, pump>>
    BY <1>9 DEF Spawn, daemonVars, rowVars
  <2>2. CASE child' = [child EXCEPT ![s] = "alive"] /\ Goto(r, "pid") /\ UNCHANGED gitVars
    <3>1. child'[s] = "alive" /\ \A t \in Sessions : t # s => child'[t] = child[t]
      BY <2>2 DEF TypeOK
    <3>2. UNCHANGED <<dir, branch>>
      BY <2>2 DEF gitVars
    <3>3. ByRequest(r, s) /\ req'[r].at = "pid" /\ req'[r].s = s
      BY <1>0, <1>1, <2>1, <2>2, <3>1, <3>2, EndsBy DEF Spawns
    <3> QED
      BY <2>1, <3>1, <3>2, <3>3, ChildFits
  <2>3. CASE Rollback(s) /\ Goto(r, "clear") /\ UNCHANGED child
    BY <1>6, <2>1, <2>3
  <2>4. CASE Done(r) /\ UNCHANGED gitVars /\ UNCHANGED child
    BY <2>1, <2>4, LookupsFit DEF rowVars, procVars
  <2> QED
    BY <1>0, <1>9, <2>2, <2>3, <2>4 DEF Spawn
<1>10. CASE Register(r)
  <2>1. /\ req[r].at = "register" /\ Goto(r, "hook") /\ UNCHANGED <<up, orphans, early, sweep, row, dir, branch, child>>
        /\ pump' = [pump EXCEPT ![s] = "reading"]
    BY <1>0, <1>10 DEF Register, daemonVars, rowVars, gitVars
  <2>2. pump'[s] = "reading" /\ \A t \in Sessions : t # s => pump'[t] = pump[t]
    BY <2>1 DEF TypeOK
  <2>3. ByRequest(r, s) /\ req'[r].at = "hook"
    BY <1>0, <1>1, <2>1, <2>2, EndsBy
  <2> QED
    BY <2>1, <2>2, <2>3, RegisterFits
<1>11. CASE ArchiveRow(r)
  <2>1. /\ req[r].at = "archive" /\ UNCHANGED <<daemonVars, project, gitVars, procVars, sweep, early>>
        /\ UNCHANGED <<up, orphans, early, sweep, dir, branch, child, pump>>
    BY <1>11 DEF ArchiveRow, daemonVars, gitVars, procVars
  <2>2. CASE Done(r) /\ UNCHANGED row
    BY <2>1, <2>2, LookupsFit
  <2>3. CASE /\ row[s] # None
             /\ row' = [row EXCEPT ![s].state = "archived", ![s].archived = "recent"]
             /\ Goto(r, "cleanup") \/ Done(r)
    <3>1. PICK x : x = [row[s] EXCEPT !.state = "archived", !.archived = "recent"]
      OBVIOUS
    <3>2. x \in Rows /\ x.archived = "recent" /\ x.state = "archived"
      <4>1. row[s] \in Rows
        BY <2>3 DEF TypeOK
      <4> QED
        BY <3>1, <4>1 DEF Rows, States
    <3>3. row' = [row EXCEPT ![s] = x]
      BY <2>3, <3>1
    <3>4. row'[s] = x /\ x # None /\ \A t \in Sessions : t # s => row'[t] = row[t]
      BY <3>2, <3>3, RowSet, RowAssumption
    <3>5. ByRequest(r, s) /\ req'[r].at \in {"idle", "cleanup"}
      <4>1. "cleanup" \in Ats \ {"idle"}
        BY DEF Ats
      <4>2. /\ Done(r) => ByRequest(r, s) /\ req'[r].at = "idle"
            /\ Goto(r, "cleanup") => ByRequest(r, s) /\ req'[r].at = "cleanup"
        BY <1>0, <2>1, <3>4, <4>1, EndsBy
      <4> QED
        BY <2>3, <4>2
    <3> QED
      BY <2>1, <3>2, <3>4, <3>5, ArchiveFits
  <2> QED
    BY <1>0, <1>11, <2>2, <2>3 DEF ArchiveRow
<1>12. CASE ArchiveCleanup(r)
  <2>1. /\ req[r].at = "cleanup" /\ UNCHANGED <<up, orphans, early, sweep, row, child, pump>>
    BY <1>12 DEF ArchiveCleanup, daemonVars, rowVars, procVars
  <2>2. PICK o \in Cleanup(s, "KeepBranchIfDirty") :
          /\ dir' = [dir EXCEPT ![s] = o.dir] /\ branch' = [branch EXCEPT ![s] = o.branch]
          /\ Done(r) \/ Goto(r, "keep") \/ Goto(r, "drop")
    BY <1>0, <1>12 DEF ArchiveCleanup
  <2>3. o.dir \in Dirs /\ o.branch \in Branches
    BY CleanupLeaves
  <2>4. \A t \in Sessions : t # s => dir'[t] = dir[t] /\ branch'[t] = branch[t]
    BY <2>2, <2>3, GitSet
  <2>5. ByRequest(r, s) /\ req'[r].at \in {"idle", "keep", "drop"}
    BY <1>0, <1>1, <2>1, <2>2, <2>4, EndsBy DEF Ending
  <2> QED
    BY <2>1, <2>5, GitFits
<1>13. CASE ImportRow(r)
  <2>1. /\ req[r].at = "import" /\ Done(r) /\ UNCHANGED <<daemonVars, project, gitVars, procVars, sweep, early>>
        /\ UNCHANGED <<up, orphans, early, sweep, dir, branch, child, pump>>
    BY <1>13 DEF ImportRow, daemonVars, gitVars, procVars
  <2>2. CASE row' = row
    BY <2>1, <2>2, LookupsFit
  <2>3. CASE row' = [row EXCEPT ![s] = NewRow(FALSE, "exited", "import")]
    <3>1. NewRow(FALSE, "exited", "import") \in Rows /\ NewRow(FALSE, "exited", "import").archived = "no"
      BY DEF NewRow, Rows, States
    <3>2. req[r].at \in Making
      BY <2>1 DEF Making
    <3> QED
      BY <1>7, <2>1, <2>3, <3>1, <3>2
  <2> QED
    BY <1>0, <1>13, <2>2, <2>3 DEF ImportRow
<1> QED
  BY <1>2, <1>3, <1>4, <1>5, <1>8, <1>9, <1>10, <1>11, <1>12, <1>13 DEF RequestStep, CreateSteps, OtherSteps

\* What the pump and the child do to one session; its requests stay.
LEMMA PumpFits ==
  ASSUME TypeOK, OwnInv, FitInv, NEW s \in Sessions,
         Promote(s) \/ PumpExit(s) \/ PumpRemove(s) \/ ChildExits(s)
  PROVE  FitInv'
<1>1. /\ UNCHANGED <<up, orphans, dir, branch, req, sweep, early>> /\ Fit(s)
      /\ up \/ UNCHANGED <<req, pump>>
  BY DEF Promote, PumpExit, PumpRemove, ChildExits, daemonVars, gitVars, FitInv, Down
<1>2. /\ pump \in [Sessions -> {"off", "reading", "exited"}] /\ child \in [Sessions -> {"none", "alive", "dead"}]
      /\ mem \in [Sessions -> Active \cup {"exited"}]
  BY DEF TypeOK
<1>3. \/ pump[s] = "reading" /\ pump'[s] = "reading" /\ child'[s] = child[s]
      \/ pump[s] = "reading" /\ pump'[s] = "exited" /\ child[s] = "dead" /\ child'[s] = child[s]
      \/ pump[s] = "exited" /\ pump'[s] = "off" /\ child'[s] = child[s] /\ row' = row
      \/ pump'[s] = pump[s] /\ child[s] = "alive" /\ child'[s] = "dead" /\ row' = row
  BY <1>2 DEF Promote, PumpExit, PumpRemove, ChildExits, procVars, rowVars
<1>4. /\ \A t \in Sessions : t # s => row'[t] = row[t] /\ child'[t] = child[t] /\ pump'[t] = pump[t]
      /\ \/ row'[s] = row[s]
         \/ /\ pump[s] = "reading" /\ row[s] # None /\ row'[s] # None
            /\ row'[s].archived = row[s].archived /\ row'[s].path = row[s].path /\ row'[s].pid = row[s].pid
            /\ pump'[s] = "reading" => row'[s].state \in {"running", "waiting"}
            /\ pump'[s] = "exited" => row'[s].state = "exited"
  <2>0. \A t \in Sessions : t # s => child'[t] = child[t] /\ pump'[t] = pump[t]
    BY <1>2 DEF Promote, PumpExit, PumpRemove, ChildExits, procVars
  <2>1. CASE row' = row
    BY <2>0, <2>1
  <2>2. ASSUME NEW state \in States, row[s] # None, row' = [row EXCEPT ![s].state = state]
        PROVE  /\ \A t \in Sessions : t # s => row'[t] = row[t]
               /\ row'[s] # None /\ row'[s].archived = row[s].archived /\ row'[s].path = row[s].path
               /\ row'[s].pid = row[s].pid /\ row'[s].state = state
    <3>1. row[s] \in Rows
      BY <2>2 DEF TypeOK
    <3>2. PICK x : x = [row[s] EXCEPT !.state = state]
      OBVIOUS
    <3>3. /\ x \in Rows /\ x.archived = row[s].archived /\ x.path = row[s].path
          /\ x.pid = row[s].pid /\ x.state = state
      BY <3>1, <3>2 DEF Rows
    <3>4. row' = [row EXCEPT ![s] = x]
      BY <2>2, <3>2
    <3> QED
      BY <3>3, <3>4, RowSet, RowAssumption
  <2>3. CASE Promote(s)
    <3>1. pump[s] = "reading" /\ pump'[s] = "reading" /\ UpdateState(s, mem'[s])
          /\ mem'[s] \in {"running", "waiting"}
      BY <1>2, <2>3 DEF Promote, Active
    <3>2. row' = row \/ (row[s] # None /\ row' = [row EXCEPT ![s].state = mem'[s]])
      BY <3>1 DEF UpdateState
    <3>3. mem'[s] \in States
      BY <3>1 DEF States
    <3>4. PICK state \in States : state = mem'[s]
      BY <3>3
    <3>5. CASE row[s] # None /\ row' = [row EXCEPT ![s].state = state]
      BY <2>0, <2>2, <3>1, <3>4, <3>5
    <3> QED
      BY <2>1, <3>2, <3>4, <3>5
  <2>4. CASE PumpExit(s)
    <3>1. pump[s] = "reading" /\ pump'[s] = "exited" /\ UpdateState(s, "exited") /\ "exited" \in States
      BY <1>2, <2>4 DEF PumpExit, States
    <3>2. CASE row[s] # None /\ row' = [row EXCEPT ![s].state = "exited"]
      BY <2>0, <2>2, <3>1, <3>2
    <3> QED
      BY <2>1, <3>1, <3>2 DEF UpdateState
  <2> QED
    BY <2>1, <2>3, <2>4 DEF Promote, PumpExit, PumpRemove, ChildExits, rowVars
<1>5. pump[s] # "off" => \A r \in Requests : req[r].s = s => req[r].at \notin Spawns
  BY <1>1 DEF Fit, RowFits
<1>6. RunFits(s)'
  BY <1>1, <1>3 DEF Fit, RunFits
<1>7. RowFits(s)'
  <2>1. CASE row'[s] = row[s]
    BY <1>1, <1>3, <1>5, <2>1 DEF Fit, RowFits
  <2>2. CASE row'[s] # row[s]
    BY <1>1, <1>3, <1>4, <1>5, <2>2 DEF Fit, RowFits, Active
  <2> QED
    BY <2>1, <2>2
<1>8. TreeFits(s)'
  <2>1. (Gone(s)' <=> Gone(s)) /\ (row'[s] # None <=> row[s] # None)
    BY <1>4 DEF Gone
  <2>2. row[s] # None => row'[s].archived = row[s].archived /\ row'[s].path = row[s].path
    BY <1>4
  <2> QED
    BY <1>1, <1>3, <2>1, <2>2 DEF Fit, TreeFits
<1>9. \A t \in Sessions : t # s => Apart(t)
  BY <1>1, <1>4 DEF Apart
<1> QED
  BY <1>1, <1>6, <1>7, <1>8, <1>9, OneFits DEF Fit

\* Work is done in a worktree that stands; an archived row grows old.
LEMMA WorkFits ==
  ASSUME TypeOK, FitInv, NEW s \in Sessions, Work(s) \/ Age(s)
  PROVE  FitInv'
<1>1. UNCHANGED <<up, orphans, child, pump, req, sweep, early>> /\ Fit(s)
  BY DEF Work, Age, daemonVars, procVars, FitInv
<1>2. dir \in [Sessions -> Dirs] /\ branch \in [Sessions -> Branches] /\ row \in [Sessions -> Rows \cup {None}]
  BY DEF TypeOK, Dirs, Branches
<1>3. /\ \A t \in Sessions : t # s => row'[t] = row[t] /\ dir'[t] = dir[t] /\ branch'[t] = branch[t]
      /\ dir[s] # "none" => dir'[s] # "none"
      /\ branch[s] # "none" => branch'[s] # "none"
      /\ \/ row'[s] = row[s]
         \/ /\ row[s] # None /\ row[s].archived # "no" /\ row'[s] # None /\ row'[s].archived # "no"
            /\ row'[s].state = row[s].state /\ row'[s].pid = row[s].pid
  <2>1. CASE Work(s)
    BY <1>2, <2>1 DEF Work, rowVars
  <2>2. CASE Age(s)
    <3>1. /\ UNCHANGED <<dir, branch>> /\ row[s] # None /\ row[s].archived = "recent"
          /\ row' = [row EXCEPT ![s].archived = "expired"]
      BY <2>2 DEF Age, gitVars
    <3>2. PICK x : x = [row[s] EXCEPT !.archived = "expired"]
      OBVIOUS
    <3>3. x \in Rows /\ x.archived = "expired" /\ x.state = row[s].state /\ x.pid = row[s].pid
      BY <1>2, <3>1, <3>2 DEF Rows
    <3>4. row' = [row EXCEPT ![s] = x]
      BY <3>1, <3>2
    <3>5. row'[s] = x /\ x # None /\ \A t \in Sessions : t # s => row'[t] = row[t]
      BY <3>3, <3>4, RowSet, RowAssumption
    <3> QED
      BY <3>1, <3>3, <3>5
  <2> QED
    BY <2>1, <2>2
<1>4. RunFits(s)'
  BY <1>1 DEF Fit, RunFits
<1>5. RowFits(s)'
  BY <1>1, <1>3 DEF Fit, RowFits
<1>6. TreeFits(s)'
  BY <1>1, <1>3 DEF Fit, TreeFits, Gone
<1>7. \A t \in Sessions : t # s => Apart(t)
  BY <1>1, <1>3 DEF Apart
<1> QED
  BY <1>1, <1>4, <1>5, <1>6, <1>7, OneFits DEF Fit

\* The sweep lists archived rows, and works on what it listed: nobody makes that anew.
LEMMA SweepFits ==
  ASSUME TypeOK, OwnInv, FitInv, SweepStart \/ \E s \in Sessions : SweepRow(s)
  PROVE  FitInv'
<1>1. CASE SweepStart
  <2>1. UNCHANGED <<up, orphans, row, dir, branch, child, pump, req, early>> /\ sweep' = Expired
    BY <1>1 DEF SweepStart, daemonVars, rowVars, gitVars, procVars
  <2>2. \A s \in Expired : Gone(s) /\ \A r \in Requests : req[r].s = s => req[r].at \notin Making
    BY DEF Expired, Gone, OwnInv, MakingInv
  <2>3. ASSUME NEW s \in Sessions PROVE Fit(s)'
    <3>1. Fit(s)
      BY DEF FitInv
    <3>2. RunFits(s)'
      BY <2>1, <3>1 DEF Fit, RunFits
    <3>3. RowFits(s)'
      BY <2>1, <3>1 DEF Fit, RowFits
    <3>4. TreeFits(s)'
      BY <2>1, <2>2, <3>1 DEF Fit, TreeFits, Gone
    <3> QED
      BY <3>2, <3>3, <3>4 DEF Fit
  <2> QED
    BY <2>1, <2>3 DEF FitInv, Down
<1>2. ASSUME NEW s \in Sessions, SweepRow(s)
      PROVE  FitInv'
  <2>1. /\ UNCHANGED <<up, orphans, child, pump, req, early>>
        /\ s \in sweep /\ sweep' = sweep \ {s}
        /\ row' = row \/ ClearWorktree(s, FALSE)
        /\ \/ UNCHANGED gitVars
           \/ \E o \in Cleanup(s, "Force") :
                dir' = [dir EXCEPT ![s] = o.dir] /\ branch' = [branch EXCEPT ![s] = o.branch]
    BY <1>2 DEF SweepRow, daemonVars, procVars
  <2>2. Fit(s) /\ Gone(s) /\ \A r \in Requests : req[r].s = s => req[r].at \notin Making
    BY <2>1 DEF FitInv, Fit, TreeFits
  <2>3. /\ \A t \in Sessions : t # s => row'[t] = row[t]
        /\ row[s] = None => row'[s] = None
        /\ row'[s] # None => /\ row[s] # None /\ row'[s].archived = row[s].archived
                             /\ row'[s].state = row[s].state /\ row'[s].pid = row[s].pid
        /\ row[s] # None => row'[s] # None
    <3>1. CASE row' = row
      BY <3>1
    <3>2. CASE row[s] # None /\ row' = [row EXCEPT ![s].path = FALSE, ![s].branch = FALSE /\ @]
      <4>1. row[s] \in Rows
        BY <3>2 DEF TypeOK
      <4>2. PICK x : x = [row[s] EXCEPT !.path = FALSE, !.branch = FALSE]
        OBVIOUS
      <4>3. x \in Rows /\ x.archived = row[s].archived /\ x.state = row[s].state /\ x.pid = row[s].pid
        BY <4>1, <4>2 DEF Rows
      <4>4. row' = [row EXCEPT ![s] = x]
        BY <3>2, <4>1, <4>2 DEF Rows
      <4>5. row'[s] = x /\ x # None /\ \A t \in Sessions : t # s => row'[t] = row[t]
        BY <4>3, <4>4, RowSet, RowAssumption
      <4> QED
        BY <3>2, <4>3, <4>5
    <3> QED
      BY <2>1, <3>1, <3>2 DEF ClearWorktree
  <2>4. \A t \in Sessions : t # s => dir'[t] = dir[t] /\ branch'[t] = branch[t]
    <3>1. CASE UNCHANGED gitVars
      BY <3>1 DEF gitVars
    <3>2. ASSUME NEW o \in Cleanup(s, "Force"),
                 dir' = [dir EXCEPT ![s] = o.dir], branch' = [branch EXCEPT ![s] = o.branch]
          PROVE  \A t \in Sessions : t # s => dir'[t] = dir[t] /\ branch'[t] = branch[t]
      <4>1. o.dir \in Dirs /\ o.branch \in Branches
        BY CleanupLeaves
      <4> QED
        BY <3>2, <4>1, GitSet
    <3> QED
      BY <2>1, <3>1, <3>2
  <2>5. RunFits(s)'
    BY <2>1, <2>2 DEF Fit, RunFits
  <2>6. RowFits(s)'
    BY <2>1, <2>2, <2>3 DEF Fit, RowFits
  <2>7. TreeFits(s)'
    BY <2>1, <2>2, <2>3 DEF Fit, TreeFits, Gone, Making
  <2>8. \A t \in Sessions : t # s => Apart(t)
    BY <2>1, <2>3, <2>4 DEF Apart
  <2> QED
    BY <2>1, <2>5, <2>6, <2>7, <2>8, OneFits DEF Fit
<1> QED
  BY <1>1, <1>2

\* A crash ends requests and pumps and orphans what lives on; the reaper takes active rows.
LEMMA CrashFits ==
  ASSUME TypeOK, FitInv, Crash \/ Restart
  PROVE  FitInv'
<1>1. CASE Crash
  <2>1. /\ UNCHANGED <<row, dir, branch, early>> /\ sweep' = {}
        /\ req' = [r \in Requests |-> Idle] /\ pump' = [s \in Sessions |-> "off"]
    BY <1>1 DEF Crash, rowVars, gitVars
  <2>2. PICK alive \in SUBSET {s \in Sessions : child[s] = "alive"} :
          /\ child' = [s \in Sessions |-> IF child[s] = "alive" /\ s \notin alive THEN "dead" ELSE child[s]]
          /\ orphans' = orphans \cup alive
    BY <1>1 DEF Crash
  <2>3. \A r \in Requests : req'[r].at = "idle"
    BY <2>1 DEF Idle
  <2>4. ASSUME NEW s \in Sessions PROVE Fit(s)'
    <3>1. Fit(s) /\ pump'[s] = "off"
      BY <2>1 DEF FitInv
    <3>2. /\ child'[s] = "alive" => child[s] = "alive" /\ s \in orphans'
          /\ child'[s] # "none" => child[s] # "none"
      BY <2>2
    <3>3. RunFits(s)'
      BY <3>1, <3>2 DEF RunFits
    <3>4. RowFits(s)'
      BY <2>1, <2>3, <3>1, <3>2 DEF Fit, RowFits, Spawns
    <3>5. TreeFits(s)'
      BY <2>1, <2>3, <3>1, <3>2 DEF Fit, TreeFits, Gone, Making
    <3> QED
      BY <3>3, <3>4, <3>5 DEF Fit
  <2> QED
    BY <2>1, <2>3, <2>4 DEF FitInv, Down
<1>2. CASE Restart
  <2>1. UNCHANGED <<orphans, dir, branch, child, pump, req, sweep, early>> /\ ~up /\ up'
    BY <1>2 DEF Restart, gitVars, procVars
  <2>2. PICK reaped \in SUBSET Sessions : ReapOrphans(reaped)
    BY <1>2 DEF Restart
  <2>3. /\ \A r \in Requests : req[r].at = "idle" /\ req'[r].at = "idle"
        /\ \A s \in Sessions : pump[s] = "off" /\ pump'[s] = "off"
    BY <2>1 DEF FitInv, Down
  <2>4. ASSUME NEW s \in Sessions PROVE Fit(s)'
    <3>1. Fit(s)
      BY DEF FitInv
    <3>2. \/ row'[s] = row[s]
          \/ /\ row[s] # None /\ row'[s].archived = row[s].archived /\ row'[s].path = row[s].path
             /\ row'[s].pid = row[s].pid /\ (row[s].pid => child[s] # "alive")
      <4>1. CASE s \notin reaped
        BY <2>2, <4>1 DEF ReapOrphans
      <4>2. CASE s \in reaped
        <5>1. /\ row'[s] = [row[s] EXCEPT !.state = "exited"] /\ row[s] # None /\ row[s] \in Rows
              /\ ~row[s].pid \/ child[s] # "alive"
          BY <2>2, <4>2 DEF ReapOrphans, TypeOK
        <5>2. PICK x : x = [row[s] EXCEPT !.state = "exited"]
          OBVIOUS
        <5>3. x.archived = row[s].archived /\ x.path = row[s].path /\ x.pid = row[s].pid
          BY <5>1, <5>2 DEF Rows
        <5> QED
          BY <5>1, <5>2, <5>3
      <4> QED
        BY <4>1, <4>2
    <3>3. RunFits(s)'
      BY <2>1, <2>3, <3>1 DEF Fit, RunFits
    <3>4. RowFits(s)'
      BY <2>1, <2>3, <3>1, <3>2 DEF Fit, RowFits, Spawns
    <3>5. TreeFits(s)'
      BY <2>1, <2>3, <3>1, <3>2 DEF Fit, TreeFits, Gone, Making
    <3> QED
      BY <3>3, <3>4, <3>5 DEF Fit
  <2> QED
    BY <2>1, <2>4 DEF FitInv, Down
<1> QED
  BY <1>1, <1>2

\* Requests begin: on a fresh id, or on a row.
LEMMA BeginFits ==
  ASSUME TypeOK, FitInv, NEW r \in Requests, NEW s \in Sessions,
         \/ ImportRequest(r, s) \/ \E wt \in BOOLEAN : CreateRequest(r, s, wt)
         \/ ArchiveRequest(r, s, "snapshot") \/ ArchiveRequest(r, s, "delete")
  PROVE  FitInv'
<1>1. /\ UNCHANGED <<up, orphans, row, dir, branch, child, pump, sweep>> /\ up /\ Fit(s)
      /\ req[r].at = "idle" /\ req[r].s = None
  BY DEF ImportRequest, CreateRequest, ArchiveRequest, daemonVars, rowVars, gitVars, procVars, FitInv, Idle
<1>2. /\ req'[r].s = s /\ \A q \in Requests : q # r => req'[q] = req[q]
      /\ \/ req'[r].at \in {"lookup", "find"} /\ s \notin sweep /\ early' = early
         \/ /\ req'[r].at \in {"snapshot", "delete"}
            /\ early' = early \/ (early' = early \cup {s} /\ row[s] # None)
  <2>1. \A x \in Request : req' = [req EXCEPT ![r] = x] =>
          req'[r] = x /\ \A q \in Requests : q # r => req'[q] = req[q]
    BY Requested
  <2>2. CASE ImportRequest(r, s)
    <3>1. PICK x : x = [Idle EXCEPT !.at = "find", !.s = s]
      OBVIOUS
    <3>2. x \in Request /\ x.at = "find" /\ x.s = s
      BY <3>1 DEF Idle, Request, Ats
    <3> QED
      BY <2>1, <2>2, <3>1, <3>2 DEF ImportRequest, Fresh
  <2>3. ASSUME NEW wt \in BOOLEAN, CreateRequest(r, s, wt)
        PROVE  /\ req'[r].s = s /\ req'[r].at = "lookup" /\ s \notin sweep /\ early' = early
               /\ \A q \in Requests : q # r => req'[q] = req[q]
    <3>1. PICK x : x = [at |-> "lookup", s |-> s, wt |-> wt, path |-> FALSE]
      OBVIOUS
    <3>2. x \in Request /\ x.at = "lookup" /\ x.s = s
      BY <3>1 DEF Request, Ats
    <3> QED
      BY <2>1, <2>3, <3>1, <3>2 DEF CreateRequest, Fresh
  <2>4. ASSUME NEW op \in {"snapshot", "delete"}, ArchiveRequest(r, s, op)
        PROVE  /\ req'[r].s = s /\ req'[r].at = op /\ \A q \in Requests : q # r => req'[q] = req[q]
               /\ early' = early \/ (early' = early \cup {s} /\ row[s] # None)
    <3>1. PICK x : x = [Idle EXCEPT !.at = op, !.s = s]
      OBVIOUS
    <3>2. x \in Request /\ x.at = op /\ x.s = s
      BY <3>1 DEF Idle, Request, Ats
    <3> QED
      BY <2>1, <2>4, <3>1, <3>2 DEF ArchiveRequest
  <2> QED
    BY <2>2, <2>3, <2>4
<1>3. RunFits(s)'
  BY <1>1, <1>2 DEF Fit, RunFits
<1>4. RowFits(s)'
  BY <1>1, <1>2 DEF Fit, RowFits, Spawns
<1>5. TreeFits(s)'
  BY <1>1, <1>2 DEF Fit, TreeFits, Gone, Making
<1>6. \A t \in Sessions : t # s => Apart(t)
  BY <1>1, <1>2, LifecycleAssumption DEF Apart
<1> QED
  BY <1>1, <1>3, <1>4, <1>5, <1>6, OneFits DEF Fit

\* Every step keeps the fit.
LEMMA FitKept ==
  TypeOK /\ OwnInv /\ FitInv /\ [Next]_vars => FitInv'
<1> SUFFICES ASSUME TypeOK, OwnInv, FitInv, [Next]_vars
             PROVE  FitInv'
  OBVIOUS
<1>1. CASE UNCHANGED vars
  <2>1. UNCHANGED <<up, orphans, row, dir, branch, child, pump, req, sweep, early>>
    BY <1>1 DEF vars, daemonVars, rowVars, gitVars, procVars
  <2>2. \A t \in Sessions : Fit(t) /\ Apart(t)
    BY <2>1 DEF Apart, FitInv
  <2>3. Down'
    BY <2>1 DEF FitInv, Down
  <2> QED
    BY <2>2, <2>3, FitsStill DEF FitInv
<1>2. ASSUME NEW r \in Requests, RequestStep(r) PROVE FitInv'
  BY <1>2, RequestStepsFit
<1>3. ASSUME NEW r \in Requests, NEW s \in Sessions,
             \/ \E wt \in BOOLEAN : CreateRequest(r, s, wt)
             \/ ArchiveRequest(r, s, "snapshot") \/ ArchiveRequest(r, s, "delete") \/ ImportRequest(r, s)
      PROVE  FitInv'
  BY <1>3, BeginFits
<1>4. ASSUME NEW s \in Sessions,
             Promote(s) \/ PumpExit(s) \/ PumpRemove(s) \/ ChildExits(s) \/ Work(s) \/ Age(s) \/ SweepRow(s)
      PROVE  FitInv'
  BY <1>4, PumpFits, WorkFits, SweepFits
<1>5. CASE SweepStart \/ Crash \/ Restart
  BY <1>5, SweepFits, CrashFits
<1> QED
  BY <1>1, <1>2, <1>3, <1>4, <1>5 DEF Next

\* Nothing has begun at first.
LEMMA FitStart == Init => FitInv
<1> SUFFICES ASSUME Init PROVE FitInv
  OBVIOUS
<1>1. up /\ \A r \in Requests : req[r].at = "idle"
  BY DEF Init, Idle
<1>2. ASSUME NEW s \in Sessions PROVE Fit(s)
  <2>1. row[s] = None /\ child[s] = "none" /\ pump[s] = "off" /\ s \notin sweep
    BY DEF Init
  <2> QED
    BY <1>1, <2>1 DEF Fit, RunFits, RowFits, TreeFits, Spawns, Making
<1> QED
  BY <1>1, <1>2 DEF FitInv, Down

-----------------------------------------------------------------------------
(* The theorems *)

\* The steps of a request.
LEMMA RequestKeeps ==
  ASSUME TypeOK, OwnInv, NEW r \in Requests, RequestStep(r)
  PROVE  TypeOK' /\ OwnInv' /\ WorkKept
<1>1. CASE TypeOK' /\ Onward /\ WorkKept
  BY <1>1, GoingOn DEF Onward
<1>2. CASE \/ EnsureProject(r, "lookup", "project", "provision")
           \/ EnsureProject(r, "findProject", "importProject", "import") \/ ImportFind(r)
  BY <1>1, <1>2, LookupSteps
<1>3. CASE ClearFailed(r) \/ UpdatePid(r) \/ Hook(r) \/ ArchiveClear(r) \/ DeleteRow(r)
  BY <1>1, <1>3, RowSteps
<1>4. CASE ArchiveSnapshot(r) \/ ArchiveCleanup(r)
  BY <1>1, <1>4, ArchiveSteps
<1>5. CASE Provision(r)
  <2>1. req[r].at = "provision" /\ UNCHANGED <<daemonVars, rowVars, procVars, sweep, early>>
    BY <1>5 DEF Provision
  <2>2. CASE Create(r)
    BY <2>1, <2>2, WorktreeMade
  <2>3. CASE ~Create(r)
    <3>1. UNCHANGED gitVars /\ (Goto(r, "row") \/ Done(r))
      BY <1>5, <2>3 DEF Provision, NoBaseBranch
    <3> QED
      BY <1>1, <2>1, <3>1, FailSteps
  <2> QED
    BY <2>2, <2>3
<1>6. CASE InsertRow(r)
  <2>1. req[r].at = "row" /\ UNCHANGED <<daemonVars, project, procVars, sweep, early>>
    BY <1>6 DEF InsertRow
  <2>2. PICK s \in Sessions : s = req[r].s
    BY <2>1 DEF OwnInv, RequestsInv
  <2>3. CASE Done(r) /\ (Rollback(s) \/ UNCHANGED gitVars) /\ UNCHANGED row
    BY <1>1, <2>1, <2>2, <2>3, FailSteps DEF rowVars
  <2>4. CASE /\ row' = [row EXCEPT ![s] = NewRow(req[r].wt, "starting", "user")] 
             /\ Goto(r, "spawn") /\ UNCHANGED gitVars
    <3>1. req[r].wt \in BOOLEAN
      BY DEF TypeOK
    <3>2. NewRow(req[r].wt, "starting", "user") \in Rows /\ NewRow(req[r].wt, "starting", "user").archived = "no"
      BY <3>1 DEF NewRow, Rows, States
    <3>3. req[r].at \in Making
      BY <2>1 DEF Making
    <3> QED
      BY <2>1, <2>2, <2>4, <3>2, <3>3, RowInserted
  <2> QED
    BY <1>6, <2>2, <2>3, <2>4 DEF InsertRow
<1>7. CASE Spawn(r)
  <2>1. req[r].at = "spawn" /\ UNCHANGED <<daemonVars, rowVars, mem, pump, sweep, early>>
    BY <1>7 DEF Spawn
  <2>2. CASE child' = [child EXCEPT ![req[r].s] = "alive"] /\ Goto(r, "pid") /\ UNCHANGED gitVars
    BY <2>1, <2>2, SpawnSteps
  <2>3. CASE /\ (Rollback(req[r].s) /\ Goto(r, "clear")) \/ (Done(r) /\ UNCHANGED gitVars)
             /\ UNCHANGED child
    BY <1>1, <2>1, <2>3, FailSteps DEF procVars
  <2> QED
    BY <1>7, <2>2, <2>3 DEF Spawn
<1>8. CASE Register(r)
  <2>1. UNCHANGED <<daemonVars, rowVars, gitVars, sweep, early>>
    BY <1>8 DEF Register
  <2> QED
    BY <1>8, <2>1, SpawnSteps
<1>9. CASE ArchiveRow(r)
  BY <1>9, ArchiveRowSteps
<1>10. CASE ImportRow(r)
  <2>1. req[r].at = "import" /\ Done(r) /\ UNCHANGED <<daemonVars, project, gitVars, procVars, sweep, early>>
    BY <1>10 DEF ImportRow
  <2>2. PICK s \in Sessions : s = req[r].s
    BY <2>1 DEF OwnInv, RequestsInv
  <2>3. CASE row' = row
    BY <1>1, <2>1, <2>3, DoneGoesOn, RequestMoves DEF rowVars
  <2>4. CASE row' = [row EXCEPT ![s] = NewRow(FALSE, "exited", "import")]
    <3>1. NewRow(FALSE, "exited", "import") \in Rows /\ NewRow(FALSE, "exited", "import").archived = "no"
      BY DEF NewRow, Rows, States
    <3>2. req[r].at \in Making
      BY <2>1 DEF Making
    <3> QED
      BY <2>1, <2>2, <2>4, <3>1, <3>2, RowInserted
  <2> QED
    BY <1>10, <2>2, <2>3, <2>4 DEF ImportRow
<1> QED
  BY <1>2, <1>3, <1>4, <1>5, <1>6, <1>7, <1>8, <1>9, <1>10 DEF RequestStep, CreateSteps, OtherSteps

\* Every step keeps the invariant, and loses no work but the sweep's.
LEMMA LifeKept ==
  TypeOK /\ OwnInv /\ [Next]_vars => TypeOK' /\ OwnInv' /\ (WorkKept \/ UNCHANGED vars)
<1> SUFFICES ASSUME TypeOK, OwnInv, [Next]_vars
             PROVE  TypeOK' /\ OwnInv' /\ (WorkKept \/ UNCHANGED vars)
  OBVIOUS
<1>1. CASE TypeOK' /\ Onward /\ WorkKept
  BY <1>1, GoingOn DEF Onward
<1>2. CASE UNCHANGED vars
  <2>1. UNCHANGED <<daemonVars, rowVars, gitVars, procVars, sweep, early, req>>
    BY <1>2 DEF vars
  <2>2. req' \in [Requests -> Request] /\ \A q \in Requests : GoesOn(q)
    BY <2>1 DEF GoesOn, TypeOK, Request
  <2> QED
    BY <1>1, <2>1, <2>2, RequestMoves
<1>3. ASSUME NEW r \in Requests, RequestStep(r) PROVE TypeOK' /\ OwnInv' /\ WorkKept
  BY <1>3, RequestKeeps
<1>4. ASSUME NEW r \in Requests, NEW s \in Sessions,
             \/ \E wt \in BOOLEAN : CreateRequest(r, s, wt)
             \/ ArchiveRequest(r, s, "snapshot") \/ ArchiveRequest(r, s, "delete") \/ ImportRequest(r, s)
      PROVE  TypeOK' /\ OwnInv' /\ WorkKept
  BY <1>4, BeginSteps, ArchiveBegins
<1>5. ASSUME NEW s \in Sessions,
             Promote(s) \/ PumpExit(s) \/ PumpRemove(s) \/ ChildExits(s) \/ Work(s) \/ Age(s) \/ SweepRow(s)
      PROVE  TypeOK' /\ OwnInv' /\ WorkKept
  BY <1>1, <1>5, PumpSteps, WorkSteps, SweepSteps
<1>6. CASE SweepStart \/ Crash \/ Restart
  BY <1>1, <1>6, SweepSteps, CrashSteps
<1> QED
  BY <1>2, <1>3, <1>4, <1>5, <1>6 DEF Next

\* Nothing is there at first.
LEMMA LifeStart == Init => TypeOK /\ OwnInv
<1> SUFFICES ASSUME Init PROVE TypeOK /\ OwnInv
  OBVIOUS
<1>1. Idle \in Request /\ Idle.at = "idle" /\ Idle.s = None /\ 0 \in 0..MaxCrashes
  BY LifecycleAssumption DEF Idle, Request, Ats
<1>2. TypeOK
  BY <1>1 DEF Init, TypeOK, Active, Request
<1>3. \A r \in Requests : req[r].at = "idle"
  BY <1>1 DEF Init
<1>4. \A s \in Sessions : row[s] = None
  BY DEF Init
<1> QED
  BY <1>2, <1>3, <1>4 DEF OwnInv, RequestsInv, MakingInv, SpawnInv, EndingInv, QuietInv, Making, Spawns, Ending

\* Rows, registry, children and worktrees fit together: what is archived stays archived
\* and has no runtime; a child that runs has a pump, or the request that spawned it, or a
\* crash orphaned it; what is in the registry keeps its row; the reaper writes off no
\* process it knew; and the worktree of an unarchived session stands (la-core/manager.rs,
\* la-core/worktree, la-daemon/dispatcher.rs).
THEOREM LifecycleFits == Spec => []LifecycleInv
<1> DEFINE Inv == TypeOK /\ OwnInv /\ FitInv
<1>1. Init => Inv
  BY LifeStart, FitStart
<1>2. Inv /\ [Next]_vars => Inv'
  BY LifeKept, FitKept
<1>3. Inv => LifecycleInv
  <2> SUFFICES ASSUME TypeOK, OwnInv, FitInv PROVE LifecycleInv
    OBVIOUS
  <2>0. \A s \in Sessions : RunFits(s) /\ RowFits(s) /\ TreeFits(s)
    BY DEF FitInv, Fit
  <2>1. ChildrenAreWatched
    BY <2>0 DEF ChildrenAreWatched, RunFits
  <2>2. RegisteredHasRow
    BY <2>0 DEF RegisteredHasRow, RunFits, RowFits, Registry
  <2>3. ReapedIsGone
    BY <2>0 DEF ReapedIsGone, RowFits
  <2>4. WorktreeStands
    BY <2>0 DEF WorktreeStands, TreeFits
  <2>5. ArchivedIsQuiet
    <3>1. ASSUME NEW s \in Sessions, row[s] # None, row[s].archived # "no", s \notin early
          PROVE  /\ s \notin Registry /\ row[s].state = "archived"
                 /\ child[s] = "alive" => s \in orphans
      <4>1. pump[s] = "off" /\ row[s].state = "archived" /\ ~Spawning(s)
        BY <3>1 DEF OwnInv, QuietInv
      <4> QED
        BY <2>0, <4>1 DEF RunFits, Registry, Spawning
    <3> QED
      BY <3>1 DEF ArchivedIsQuiet
  <2> QED
    BY <2>1, <2>2, <2>3, <2>4, <2>5 DEF LifecycleInv
<1> QED
  BY <1>1, <1>2, <1>3, PTL DEF Spec

\* Committed work stays where it can be found through every rollback, archive, delete,
\* crash and restart: only the sweep of a row archived a TTL ago gives it up.
THEOREM WorkIsKept == Spec => CommittedWorkKept
<1>1. TypeOK /\ OwnInv /\ [Next]_vars => TypeOK' /\ OwnInv'
  BY LifeKept
<1>2. TypeOK /\ OwnInv /\ [Next]_vars =>
        [\A s \in Sessions : Recoverable(s) /\ ~Recoverable(s)' => s \in sweep]_vars
  BY LifeKept DEF WorkKept
<1> QED
  BY LifeStart, <1>1, <1>2, PTL DEF Spec, CommittedWorkKept
=============================================================================
