-------------------------- MODULE DaemonTasks_proofs --------------------------
(***************************************************************************)
(* Proofs about the daemon's scheduler tasks.  RunExecutor, for every       *)
(* number of crons, runs and callers and every quota, with every fault,     *)
(* edit and restart the model has: types, the two concurrency rails, the    *)
(* slots; and what the runs table and the failure counters say while        *)
(* statements succeed.  SchedulerServices, for every set of crons, every    *)
(* backlog and every channel capacity: types, and that the order of the     *)
(* shutdown loses no fire.                                                  *)
(***************************************************************************)
EXTENDS RunExecutor, SchedulerServices, FiniteSetTheorems, TLAPS

-----------------------------------------------------------------------------
(* The executor: its inductive invariant *)

\* The places of an admitter that holds the admission lock.
Locked == {"gate", "audit", "reserved", "counted", "created", "undo", "undo_cron", "mark",
           "leaving"}

\* An admitter past the lock holds it, so there is at most one.
LockInv == \A a \in Admitters : pc[a] \in Locked => lock = a

\* An admitter at work has a cron; past the insert it has a row that says
\* spawning and that no watcher knows of yet.
JobInv ==
  \A a \in Admitters :
    /\ pc[a] # "idle" => job[a].cron \in Crons
    /\ pc[a] = "created" =>
         /\ job[a].run \in Runs /\ runs[job[a].run] # None
         /\ runs[job[a].run].status = "spawning" /\ watcher[job[a].run] = "none"

\* A watcher has a row and a cron, and a verdict when it is about to write it.
WatchInv ==
  \A r \in Runs :
    /\ watcher[r] # "none" => runs[r] # None /\ watched[r] \in Crons
    /\ watcher[r] = "finishing" => verdict[r] \in Failure \cup {"completed"}

\* An admission that was let in still has room for its row.
RoomInv ==
  \A a \in Admitters :
    pc[a] \in {"reserved", "counted"} => Cardinality(RunningFor(job[a].cron)) < MaxConcurrent

TypeInv == ExecTypeOK /\ JobInv /\ WatchInv
Inv == TypeInv /\ LockInv /\ RoomInv /\ PerCronCap

-----------------------------------------------------------------------------
(* Types *)

\* A record that differs from a row of the crons table by one written field is one.
LEMMA RowUpdates ==
  ASSUME NEW r \in Row
  PROVE  /\ \A b \in BOOLEAN : [r EXCEPT !.enabled = b] \in Row
         /\ [r EXCEPT !.failures = @ + 1] \in Row /\ [r EXCEPT !.failures = 0] \in Row
         /\ \A at \in Nat \cup {None} : Marked(r, at) \in Row
         /\ PausedRow(r) \in Row
<1>1. \A b \in BOOLEAN : [r EXCEPT !.enabled = b] \in Row
  BY Zenon DEF Row
<1>2. [r EXCEPT !.failures = @ + 1] \in Row /\ [r EXCEPT !.failures = 0] \in Row
  BY DEF Row
<1>3. \A at \in Nat \cup {None} : [r EXCEPT !.mark = at] \in Row
  BY DEF Row
<1>4. \A at \in Nat \cup {None} : Marked(r, at) \in Row
  BY <1>3 DEF Marked
<1>5. PausedRow(r) \in Row
  BY <1>1 DEF PausedRow
<1> QED
  BY <1>1, <1>2, <1>4, <1>5

\* The same for the rows of the runs table.
LEMMA RunUpdates ==
  ASSUME NEW r \in Run
  PROVE  /\ [r EXCEPT !.cron = None] \in Run
         /\ \A s \in {"running", "completed", "failed", "missing", "timed_out"} :
              /\ [r EXCEPT !.status = s] \in Run
              /\ [r EXCEPT !.status = s].status = s
              /\ [r EXCEPT !.status = s].cron = r.cron
  BY DEF Run, InFlight, Failure

\* A counter decremented with saturating_sub stays a natural number.
LEMMA LessIsNat == \A n \in Nat : Less(n) \in Nat
  BY DEF Less

\* The empty job, the state of an idle caller, is a job.
LEMMA NoJobIsJob == NoJob \in Job
  BY DEF NoJob, Job

\* The state the executor starts in is well typed.
LEMMA InitTypes == ExecInit => TypeInv
<1> SUFFICES ASSUME ExecInit PROVE TypeInv
  OBVIOUS
<1> USE DEF ExecInit
<1>1. NewRow(TRUE) \in Row
  BY Zenon DEF NewRow, Row
<1>2. ExecTypeOK
  BY <1>1, NoJobIsJob DEF ExecTypeOK
<1>3. JobInv /\ WatchInv
  BY DEF JobInv, WatchInv
<1> QED
  BY <1>2, <1>3 DEF TypeInv

\* Every step of an admission keeps the types.
LEMMA AdmitTypes ==
  ASSUME TypeInv, LockInv, NEW a \in Admitters, AdmitStep(a)
  PROVE  TypeInv'
<1> USE ExecutorAssumption DEF TypeInv, tables, watch, slots, life
<1>0. pc[a] # "idle" /\ job[a].cron \in Crons /\ job[a] \in Job
  BY DEF AdmitStep, Acquire, Gate, GateFails, Audit, BumpForCron, CreateRun, CreateFails, Spawn,
         SpawnFailed, Undo, UndoForCron, MarkFired, Leave, ExecTypeOK, JobInv
<1>1. CASE Acquire(a)
  <2>1. CASE a = Executor /\ crons[job[a].cron] = None
    BY <1>1, <2>1, NoJobIsJob DEF Acquire, ExecTypeOK, JobInv, WatchInv
  <2>2. CASE ~(a = Executor /\ crons[job[a].cron] = None)
    <3> DEFINE j == [job[a] EXCEPT !.row = IF a = Executor THEN crons[job[a].cron] ELSE @]
    <3>1. j \in Job /\ j.cron = job[a].cron
      BY <1>0 DEF ExecTypeOK, Job
    <3>2. job' = [job EXCEPT ![a] = j] /\ pc' = [pc EXCEPT ![a] = "gate"] /\ lock' = a
      BY <1>1, <2>2 DEF Acquire
    <3> HIDE DEF j
    <3>3. JobInv'
      BY <1>0, <1>1, <3>1, <3>2 DEF Acquire, ExecTypeOK, JobInv
    <3> QED
      BY <1>1, <3>1, <3>2, <3>3 DEF Acquire, ExecTypeOK, WatchInv
  <2> QED
    BY <2>1, <2>2
\* The steps that leave the tables, the job and the watchers alone.
<1>2. ASSUME NEW place \in {"audit", "reserved", "counted", "undo", "undo_cron", "mark", "leaving"},
             pc' = [pc EXCEPT ![a] = place], global' \in Nat, perCron' \in [Crons -> Nat],
             UNCHANGED <<tables, lock, job, watch, life>>
      PROVE  TypeInv'
  BY <1>0, <1>2 DEF ExecTypeOK, JobInv, WatchInv
<1>3. Settled(a) \in {"mark", "leaving"}
  BY DEF Settled
<1>4. CASE Gate(a) \/ GateFails(a)
  BY <1>2, <1>3, <1>4 DEF Gate, GateFails, ExecTypeOK
<1>5. CASE BumpForCron(a)
  BY <1>0, <1>5 DEF BumpForCron, ExecTypeOK, JobInv, WatchInv
<1>6. CASE CreateFails(a)
  BY <1>0, <1>6 DEF CreateFails, ExecTypeOK, JobInv, WatchInv
<1>7. CASE Undo(a)
  <2>1. global' \in Nat
    BY <1>7, LessIsNat DEF Undo, ExecTypeOK
  <2> QED
    BY <1>0, <1>7, <2>1 DEF Undo, ExecTypeOK, JobInv, WatchInv
<1>8. CASE UndoForCron(a)
  <2>1. perCron' \in [Crons -> Nat]
    BY <1>8, LessIsNat DEF UndoForCron, ExecTypeOK
  <2> QED
    BY <1>2, <1>3, <1>8, <2>1 DEF UndoForCron, ExecTypeOK
<1>9. CASE Audit(a)
  <2>1. /\ runs' \in [Runs -> Run \cup {None}]
        /\ \A r \in Runs : runs[r] # None => runs'[r] = runs[r]
    <3>1. job[a].at \in Nat \cup {None}
      BY <1>0 DEF Job
    <3>2. [cron |-> job[a].cron, status |-> "rejected", at |-> job[a].at] \in Run
      BY <1>0, <3>1 DEF Run
    <3> QED
      BY <1>9, <3>2 DEF Audit, ExecTypeOK
  <2>2. /\ pc' = [pc EXCEPT ![a] = Settled(a)]
        /\ UNCHANGED <<crons, session, lock, job, watch, slots, life>>
    BY <1>9 DEF Audit
  <2>3. JobInv'
    BY <1>0, <1>3, <2>1, <2>2 DEF JobInv, ExecTypeOK
  <2>4. WatchInv'
    BY <2>1, <2>2 DEF WatchInv
  <2> QED
    BY <1>3, <2>1, <2>2, <2>3, <2>4 DEF ExecTypeOK
<1>10. CASE CreateRun(a)
  <2>1. PICK r \in Runs :
          /\ runs[r] = None
          /\ runs' = [runs EXCEPT ![r] =
               [cron |-> job[a].cron, status |-> "spawning", at |-> job[a].at]]
          /\ job' = [job EXCEPT ![a].run = r]
    BY <1>10 DEF CreateRun
  <2> DEFINE new == [cron |-> job[a].cron, status |-> "spawning", at |-> job[a].at]
             j   == [job[a] EXCEPT !.run = r]
  <2>2. new \in Run /\ new.status = "spawning" /\ new # None
    <3>1. job[a].at \in Nat \cup {None}
      BY <1>0 DEF Job
    <3>2. new \in Run /\ new.status = "spawning"
      BY <1>0, <3>1 DEF Run, InFlight
    <3> QED
      BY <3>2, NoRowAssumption
  <2>3. j \in Job /\ j.cron = job[a].cron /\ j.run = r
    BY <1>0 DEF Job
  <2>4. /\ runs' = [runs EXCEPT ![r] = new] /\ job' = [job EXCEPT ![a] = j]
        /\ pc' = [pc EXCEPT ![a] = "created"]
        /\ UNCHANGED <<crons, session, lock, watch, slots, life>>
    BY <1>10, <2>1 DEF CreateRun
  <2> HIDE DEF new, j
  <2>5. watcher[r] = "none"
    BY <2>1 DEF WatchInv
  <2>6. \A b \in Admitters : b # a => pc[b] # "created"
    BY <1>10 DEF CreateRun, LockInv, Locked
  <2>7. JobInv'
    BY <1>0, <2>2, <2>3, <2>4, <2>5, <2>6 DEF JobInv, ExecTypeOK
  <2>8. WatchInv'
    BY <2>2, <2>4 DEF WatchInv, ExecTypeOK
  <2> QED
    BY <2>2, <2>3, <2>4, <2>7, <2>8 DEF ExecTypeOK
<1>11. CASE Spawn(a)
  <2> DEFINE r == job[a].run
             new == [runs[r] EXCEPT !.status = "running"]
  <2>1. r \in Runs /\ runs[r] \in Run
    BY <1>11 DEF Spawn, JobInv, ExecTypeOK
  <2>2. new \in Run /\ new # None
    BY <2>1, RunUpdates, NoRowAssumption
  <2>3. /\ session' = [session EXCEPT ![r] = "live"] /\ runs' = [runs EXCEPT ![r] = new]
        /\ watcher' = [watcher EXCEPT ![r] = "polling"]
        /\ watched' = [watched EXCEPT ![r] = job[a].cron]
        /\ pc' = [pc EXCEPT ![a] = Settled(a)]
        /\ UNCHANGED <<crons, lock, job, verdict, slots, life>>
    BY <1>11 DEF Spawn
  <2>4. \A b \in Admitters : b # a => pc[b] # "created"
    BY <1>11 DEF Spawn, LockInv, Locked
  <2> HIDE DEF r, new
  <2>5. JobInv'
    BY <1>0, <1>3, <2>3, <2>4 DEF JobInv, ExecTypeOK
  <2>6. WatchInv'
    BY <1>0, <2>1, <2>2, <2>3 DEF WatchInv, ExecTypeOK
  <2> QED
    BY <1>0, <1>3, <2>1, <2>2, <2>3, <2>5, <2>6 DEF ExecTypeOK
<1>12. CASE SpawnFailed(a)
  <2> DEFINE r == job[a].run
             new == [runs[r] EXCEPT !.status = "failed"]
  <2>1. r \in Runs /\ runs[r] \in Run
    BY <1>12 DEF SpawnFailed, JobInv, ExecTypeOK
  <2>2. new \in Run /\ new # None
    BY <2>1, RunUpdates, NoRowAssumption
  <2>3. /\ runs' = [runs EXCEPT ![r] = new] \/ runs' = runs
        /\ pc' = [pc EXCEPT ![a] = "undo"]
        /\ UNCHANGED <<crons, session, lock, job, watch, slots, life>>
    BY <1>12 DEF SpawnFailed
  <2>4. \A b \in Admitters : b # a => pc[b] # "created"
    BY <1>12 DEF SpawnFailed, LockInv, Locked
  <2> HIDE DEF r, new
  <2>5. JobInv'
    BY <1>0, <2>3, <2>4 DEF JobInv, ExecTypeOK
  <2>6. WatchInv'
    BY <2>1, <2>2, <2>3 DEF WatchInv, ExecTypeOK
  <2> QED
    BY <2>1, <2>2, <2>3, <2>5, <2>6 DEF ExecTypeOK
<1>13. CASE MarkFired(a)
  <2>1. job[a].at \in Nat \cup {None}
    BY <1>0 DEF Job
  <2>2. crons[job[a].cron] # None => Marked(crons[job[a].cron], job[a].at) \in Row
    <3>1. crons[job[a].cron] # None => crons[job[a].cron] \in Row
      BY <1>0 DEF ExecTypeOK
    <3> QED
      BY <2>1, <3>1, RowUpdates, Zenon
  <2>3. crons' \in [Crons -> Row \cup {None}]
    BY <1>0, <1>13, <2>2 DEF MarkFired, ExecTypeOK
  <2> QED
    BY <1>0, <1>3, <1>13, <2>3 DEF MarkFired, ExecTypeOK, JobInv, WatchInv
<1>14. CASE Leave(a)
  BY <1>14, NoJobIsJob DEF Leave, ExecTypeOK, JobInv, WatchInv
<1> QED
  BY <1>1, <1>4, <1>5, <1>6, <1>7, <1>8, <1>9, <1>10, <1>11, <1>12, <1>13, <1>14 DEF AdmitStep

\* Every step of a watcher keeps the types.
LEMMA WatchTypes ==
  ASSUME TypeInv, NEW r \in Runs, WatchStep(r)
  PROVE  TypeInv'
<1> USE ExecutorAssumption DEF TypeInv, tables, admit, slots, life
<1>0. watcher[r] # "none" /\ runs[r] # None /\ runs[r] \in Run /\ watched[r] \in Crons
  BY DEF WatchStep, Observe, PollFails, TimeOut, Finish, BumpFailures, CheckPause, CountFails, Pause,
         ResetFailures, DropGlobal, DropForCron, ExecTypeOK, WatchInv
\* A run that is watched is not one that an admission is about to spawn.
<1>a. \A a \in Admitters : pc[a] = "created" => job[a].run # r
  BY <1>0 DEF JobInv
<1>1. CASE Observe(r) \/ PollFails(r) \/ TimeOut(r)
  <2>1. PICK v \in Failure \cup {"completed"} :
          /\ verdict' = [verdict EXCEPT ![r] = v]
          /\ watcher' = [watcher EXCEPT ![r] = "finishing"]
          /\ UNCHANGED <<tables, admit, watched, slots, life>>
    BY <1>1 DEF Observe, PollFails, TimeOut, VerdictOf, Failure
  <2> QED
    BY <1>0, <1>a, <2>1 DEF ExecTypeOK, JobInv, WatchInv
<1>2. CASE Finish(r)
  <2> DEFINE new == [runs[r] EXCEPT !.status = verdict[r]]
  <2>1. verdict[r] \in Failure \cup {"completed"}
    BY <1>2 DEF Finish, ExecTypeOK, WatchInv, Failure
  <2>2. new \in Run /\ new # None
    <3>1. new \in Run
      BY <1>0, <2>1, RunUpdates DEF Failure
    <3> QED
      BY <3>1, NoRowAssumption
  <2>3. PICK place \in {"bump", "reset"} :
          /\ runs' = [runs EXCEPT ![r] = new] \/ runs' = runs
          /\ watcher' = [watcher EXCEPT ![r] = place]
          /\ UNCHANGED <<crons, session, admit, verdict, watched, slots, life>>
    BY <1>2 DEF Finish
  <2> HIDE DEF new
  <2>4. JobInv'
    BY <1>a, <2>3 DEF JobInv, ExecTypeOK
  <2>5. WatchInv'
    BY <1>0, <2>2, <2>3 DEF WatchInv, ExecTypeOK
  <2> QED
    BY <2>2, <2>3, <2>4, <2>5 DEF ExecTypeOK
<1>3. ASSUME NEW place \in {"check", "pause", "drop_global", "drop_cron"},
             watcher' = [watcher EXCEPT ![r] = place],
             crons' \in [Crons -> Row \cup {None}], global' \in Nat,
             UNCHANGED <<runs, session, admit, verdict, watched, perCron, life>>
      PROVE  TypeInv'
  BY <1>0, <1>a, <1>3 DEF ExecTypeOK, JobInv, WatchInv
<1>4. CASE BumpFailures(r)
  <2>1. crons[watched[r]] # None => [crons[watched[r]] EXCEPT !.failures = @ + 1] \in Row
    BY <1>0, RowUpdates DEF ExecTypeOK
  <2>2. crons' \in [Crons -> Row \cup {None}]
    BY <1>0, <1>4, <2>1 DEF BumpFailures, ExecTypeOK
  <2> QED
    BY <1>3, <1>4, <2>2 DEF BumpFailures, ExecTypeOK
<1>5. CASE CheckPause(r) \/ CountFails(r)
  BY <1>3, <1>5 DEF CheckPause, CountFails, ExecTypeOK
<1>6. CASE Pause(r) \/ ResetFailures(r)
  <2>1. crons[watched[r]] # None => /\ PausedRow(crons[watched[r]]) \in Row
                                    /\ [crons[watched[r]] EXCEPT !.failures = 0] \in Row
    BY <1>0, RowUpdates DEF ExecTypeOK
  <2>2. crons' \in [Crons -> Row \cup {None}]
    BY <1>0, <1>6, <2>1 DEF Pause, ResetFailures, ExecTypeOK
  <2> QED
    BY <1>3, <1>6, <2>2 DEF Pause, ResetFailures, ExecTypeOK
<1>7. CASE DropGlobal(r)
  <2>1. global' \in Nat
    BY <1>7, LessIsNat DEF DropGlobal, ExecTypeOK
  <2> QED
    BY <1>3, <1>7, <2>1 DEF DropGlobal, ExecTypeOK
<1>8. CASE DropForCron(r)
  <2>1. perCron' \in [Crons -> Nat]
    BY <1>8, LessIsNat DEF DropForCron, ExecTypeOK
  <2> QED
    BY <1>a, <1>8, <2>1 DEF DropForCron, ExecTypeOK, JobInv, WatchInv
<1> QED
  BY <1>1, <1>2, <1>4, <1>5, <1>6, <1>7, <1>8 DEF WatchStep

\* What sessions, users and restarts do keeps the types.
LEMMA OtherTypes ==
  ASSUME TypeInv,
         \/ \E c \in Crons : ReceiveFire(c) \/ \E a \in Callers : RunNow(a, c)
         \/ \E r \in Runs : SessionEnds(r) \/ SessionRemoved(r)
         \/ \E c \in Crons : SetEnabled(c) \/ BeginEdit(c) \/ Edit(c) \/ DeleteCron(c)
         \/ Restart
         \/ UNCHANGED execVars
  PROVE  TypeInv'
<1> USE ExecutorAssumption DEF TypeInv, tables, admit, watch, slots, life
<1>1. ASSUME NEW c \in Crons, ReceiveFire(c) PROVE TypeInv'
  <2> DEFINE j == [NoJob EXCEPT !.cron = c, !.at = offered[c] + 1]
  <2>1. j \in Job /\ j.cron = c
    <3>1. offered[c] + 1 \in Nat
      BY DEF ExecTypeOK
    <3> QED
      BY <3>1 DEF NoJob, Job
  <2>2. /\ job' = [job EXCEPT ![Executor] = j] /\ pc' = [pc EXCEPT ![Executor] = "waiting"]
        /\ Executor \in Admitters /\ offered' = [offered EXCEPT ![c] = @ + 1]
        /\ UNCHANGED <<tables, lock, watch, slots, draft, restarts>>
    BY <1>1 DEF ReceiveFire, Admitters
  <2> HIDE DEF j
  <2>3. JobInv' /\ WatchInv'
    BY <2>1, <2>2 DEF ExecTypeOK, JobInv, WatchInv
  <2>4. offered' \in [Crons -> Nat]
    BY <2>2 DEF ExecTypeOK
  <2> QED
    BY <2>1, <2>2, <2>3, <2>4 DEF ExecTypeOK
<1>2. ASSUME NEW c \in Crons, NEW a \in Callers, RunNow(a, c) PROVE TypeInv'
  <2> DEFINE j == [NoJob EXCEPT !.cron = c, !.row = crons[c]]
  <2>1. j \in Job /\ j.cron = c
    BY DEF NoJob, Job, ExecTypeOK
  <2>2. /\ job' = [job EXCEPT ![a] = j] /\ pc' = [pc EXCEPT ![a] = "waiting"]
        /\ a \in Admitters
        /\ UNCHANGED <<tables, lock, watch, slots, life>>
    BY <1>2 DEF RunNow, Admitters
  <2> HIDE DEF j
  <2>3. JobInv' /\ WatchInv'
    BY <2>1, <2>2 DEF ExecTypeOK, JobInv, WatchInv
  <2> QED
    BY <2>1, <2>2, <2>3 DEF ExecTypeOK
<1>3. ASSUME NEW r \in Runs, SessionEnds(r) \/ SessionRemoved(r) PROVE TypeInv'
  BY <1>3 DEF SessionEnds, SessionRemoved, ExecTypeOK, JobInv, WatchInv
<1>4. \A c \in Crons : Reoffered(c) \in Nat
  BY DEF Reoffered, ExecTypeOK, Row
<1>5. ASSUME NEW c \in Crons, SetEnabled(c) PROVE TypeInv'
  <2>1. crons[c] \in Row /\ (~crons[c].enabled) \in BOOLEAN
    BY <1>5 DEF SetEnabled, ExecTypeOK
  <2>2. crons' = [crons EXCEPT ![c] = [crons[c] EXCEPT !.enabled = ~crons[c].enabled]]
    BY <1>5 DEF SetEnabled
  <2>3. crons' \in [Crons -> Row \cup {None}]
    BY <2>1, <2>2, RowUpdates DEF ExecTypeOK
  <2>4. offered' \in [Crons -> Nat]
    BY <1>4, <1>5 DEF SetEnabled, ExecTypeOK
  <2> QED
    BY <1>5, <2>3, <2>4 DEF SetEnabled, ExecTypeOK, JobInv, WatchInv
<1>6. ASSUME NEW c \in Crons, BeginEdit(c) PROVE TypeInv'
  <2>1. NewRow(FALSE) \in Row
    BY Zenon DEF NewRow, Row
  <2>2. (IF crons[c] = None THEN NewRow(FALSE) ELSE crons[c]) \in Row
    BY <2>1 DEF ExecTypeOK
  <2>3. draft' \in [Crons -> {NoDraft} \cup [state : {"read"}, row : Row]]
    BY <1>6, <2>2 DEF BeginEdit, ExecTypeOK
  <2> QED
    BY <1>6, <2>3 DEF BeginEdit, ExecTypeOK, JobInv, WatchInv
<1>7. ASSUME NEW c \in Crons, Edit(c) PROVE TypeInv'
  <2>1. draft[c].row \in Row
    BY <1>7 DEF Edit, ExecTypeOK
  <2>2. PICK enabled \in BOOLEAN :
          /\ crons' = [crons EXCEPT ![c] = [draft[c].row EXCEPT !.enabled = enabled]]
          /\ offered' = [offered EXCEPT ![c] = IF enabled /\ draft[c].row.mark # None
                                               THEN draft[c].row.mark ELSE @]
    BY <1>7 DEF Edit
  <2>3. crons' \in [Crons -> Row \cup {None}]
    BY <2>1, <2>2, RowUpdates DEF ExecTypeOK
  <2>4. offered' \in [Crons -> Nat]
    BY <2>1, <2>2 DEF ExecTypeOK, Row
  <2> QED
    BY <1>7, <2>3, <2>4 DEF Edit, ExecTypeOK, JobInv, WatchInv
<1>8. ASSUME NEW c \in Crons, DeleteCron(c) PROVE TypeInv'
  <2>1. \A r \in Runs : /\ runs[r] = None => runs'[r] = None
                        /\ runs[r] # None => /\ runs'[r] \in Run /\ runs'[r] # None
                                             /\ runs'[r].status = runs[r].status
    <3> SUFFICES ASSUME NEW r \in Runs
                 PROVE  /\ runs[r] = None => runs'[r] = None
                        /\ runs[r] # None => /\ runs'[r] \in Run /\ runs'[r] # None
                                             /\ runs'[r].status = runs[r].status
      OBVIOUS
    <3>1. runs[r] # None => runs[r] \in Run
      BY DEF ExecTypeOK
    <3>2. runs'[r] = IF runs[r] # None /\ runs[r].cron = c
                     THEN [runs[r] EXCEPT !.cron = None] ELSE runs[r]
      BY <1>8 DEF DeleteCron
    <3>3. runs[r] # None => /\ [runs[r] EXCEPT !.cron = None] \in Run
                            /\ [runs[r] EXCEPT !.cron = None].status = runs[r].status
      BY <3>1 DEF Run
    <3> QED
      BY <3>1, <3>2, <3>3, NoRowAssumption
  <2>2. runs' \in [Runs -> Run \cup {None}]
    BY <1>8, <2>1 DEF DeleteCron
  <2>3. JobInv' /\ WatchInv'
    BY <1>8, <2>1 DEF DeleteCron, JobInv, WatchInv
  <2> QED
    BY <1>8, <2>2, <2>3 DEF DeleteCron, ExecTypeOK
<1>9. CASE Restart
  BY <1>4, <1>9, NoJobIsJob DEF Restart, ExecTypeOK, JobInv, WatchInv
<1>10. CASE UNCHANGED execVars
  BY <1>10 DEF execVars, ExecTypeOK, JobInv, WatchInv
<1> QED
  BY <1>1, <1>2, <1>3, <1>5, <1>6, <1>7, <1>8, <1>9, <1>10

-----------------------------------------------------------------------------
(* The admission lock *)

\* Every step keeps the lock with the admitter that took it.
LEMMA LockStep ==
  ASSUME TypeInv, LockInv, [ExecNext]_execVars
  PROVE  LockInv'
<1> USE ExecutorAssumption DEF TypeInv, LockInv, Locked, tables, admit, watch, slots, life
<1>1. ASSUME NEW c \in Crons, ReceiveFire(c) \/ \E a \in Callers : RunNow(a, c) PROVE LockInv'
  BY <1>1 DEF ReceiveFire, RunNow, ExecTypeOK
<1>2. ASSUME NEW a \in Admitters, Acquire(a) \/ Leave(a) PROVE LockInv'
  BY <1>2 DEF Acquire, Leave, ExecTypeOK, Admitters
<1>3. ASSUME NEW a \in Admitters, AdmitStep(a), ~Acquire(a), ~Leave(a) PROVE LockInv'
  <2>1. pc[a] \in Locked /\ lock' = lock
    BY <1>3 DEF AdmitStep, Gate, GateFails, Audit, BumpForCron, CreateRun, CreateFails, Spawn,
                SpawnFailed, Undo, UndoForCron, MarkFired
  <2>2. \A b \in Admitters : b # a => pc'[b] = pc[b]
    BY <1>3 DEF AdmitStep, Gate, GateFails, Audit, BumpForCron, CreateRun, CreateFails, Spawn,
                SpawnFailed, Undo, UndoForCron, MarkFired, ExecTypeOK
  <2> QED
    BY <2>1, <2>2
<1>4. ASSUME UNCHANGED admit PROVE LockInv'
  BY <1>4
<1>5. ASSUME NEW r \in Runs, WatchStep(r) \/ SessionEnds(r) \/ SessionRemoved(r) PROVE LockInv'
  BY <1>4, <1>5 DEF WatchStep, Observe, PollFails, TimeOut, Finish, BumpFailures, CheckPause, CountFails,
                    Pause, ResetFailures, DropGlobal, DropForCron, SessionEnds, SessionRemoved
<1>6. ASSUME NEW c \in Crons, SetEnabled(c) \/ BeginEdit(c) \/ Edit(c) \/ DeleteCron(c)
      PROVE  LockInv'
  BY <1>4, <1>6 DEF SetEnabled, BeginEdit, Edit, DeleteCron
<1>7. CASE Restart
  BY <1>7 DEF Restart
<1>8. CASE UNCHANGED execVars
  BY <1>8 DEF execVars
<1> QED
  BY <1>1, <1>2, <1>3, <1>5, <1>6, <1>7, <1>8 DEF ExecNext

-----------------------------------------------------------------------------
(* The per-cron rail *)

\* A run of r is in flight after the step only if it was before, for the same
\* cron or for one that was deleted meanwhile.
Settles(r) ==
  runs'[r] # None /\ runs'[r].status \in InFlight =>
    /\ runs[r] # None /\ runs[r].status \in InFlight
    /\ runs'[r].cron \in {runs[r].cron, None}

\* Only the insert of a row adds a run in flight.
LEMMA OnlyInsertsAdd ==
  ASSUME TypeInv, [ExecNext]_execVars, ~\E a \in Admitters : CreateRun(a)
  PROVE  \A r \in Runs : Settles(r)
<1> USE DEF TypeInv, tables, admit, watch, slots, life
<1>0. ASSUME runs' = runs PROVE \A r \in Runs : Settles(r)
  BY <1>0 DEF Settles
<1>1. ASSUME NEW c \in Crons, ReceiveFire(c) \/ \E a \in Callers : RunNow(a, c)
      PROVE  \A r \in Runs : Settles(r)
  BY <1>0, <1>1 DEF ReceiveFire, RunNow
<1>2. ASSUME NEW a \in Admitters, AdmitStep(a) PROVE \A r \in Runs : Settles(r)
  <2>1. CASE Audit(a)
    BY <1>0, <2>1 DEF Audit, Settles, InFlight, ExecTypeOK
  <2>2. CASE Spawn(a) \/ SpawnFailed(a)
    <3>1. /\ job[a].run \in Runs /\ runs[job[a].run] \in Run /\ runs[job[a].run] # None
          /\ runs[job[a].run].status \in InFlight
      BY <2>2 DEF Spawn, SpawnFailed, JobInv, ExecTypeOK, InFlight
    <3>2. PICK s \in {"running", "failed"} :
            runs' = [runs EXCEPT ![job[a].run] = [runs[job[a].run] EXCEPT !.status = s]]
              \/ runs' = runs
      BY <2>2 DEF Spawn, SpawnFailed
    <3>3. [runs[job[a].run] EXCEPT !.status = s].cron = runs[job[a].run].cron
      BY <3>1, RunUpdates
    <3> QED
      BY <1>0, <3>1, <3>2, <3>3 DEF Settles, ExecTypeOK
  <2>3. CASE Acquire(a) \/ Gate(a) \/ GateFails(a) \/ BumpForCron(a) \/ CreateFails(a) \/ Undo(a)
               \/ UndoForCron(a) \/ MarkFired(a) \/ Leave(a)
    BY <1>0, <2>3 DEF Acquire, Gate, GateFails, BumpForCron, CreateFails, Undo, UndoForCron,
                      MarkFired, Leave
  <2> QED
    BY <1>2, <2>1, <2>2, <2>3 DEF AdmitStep
<1>3. ASSUME NEW q \in Runs, WatchStep(q) \/ SessionEnds(q) \/ SessionRemoved(q)
      PROVE  \A r \in Runs : Settles(r)
  <2>1. CASE Finish(q)
    <3>1. runs[q] \in Run /\ verdict[q] \in Failure \cup {"completed"}
      BY <2>1 DEF Finish, WatchInv, ExecTypeOK, Failure
    <3>2. \/ runs' = [runs EXCEPT ![q] = [runs[q] EXCEPT !.status = verdict[q]]]
          \/ runs' = runs
      BY <2>1 DEF Finish
    <3>3. [runs[q] EXCEPT !.status = verdict[q]].status \notin InFlight
      BY <3>1 DEF InFlight, Run, Failure
    <3> QED
      BY <1>0, <3>2, <3>3 DEF Settles, ExecTypeOK
  <2>2. CASE ~Finish(q)
    BY <1>0, <1>3, <2>2 DEF WatchStep, Observe, PollFails, TimeOut, BumpFailures, CheckPause, CountFails,
                            Pause, ResetFailures, DropGlobal, DropForCron, SessionEnds,
                            SessionRemoved
  <2> QED
    BY <2>1, <2>2
<1>4. ASSUME NEW c \in Crons, SetEnabled(c) \/ BeginEdit(c) \/ Edit(c)
      PROVE  \A r \in Runs : Settles(r)
  BY <1>0, <1>4 DEF SetEnabled, BeginEdit, Edit
<1>5. ASSUME NEW c \in Crons, DeleteCron(c) PROVE \A r \in Runs : Settles(r)
  <2> SUFFICES ASSUME NEW r \in Runs PROVE Settles(r)
    OBVIOUS
  <2>1. runs'[r] = IF runs[r] # None /\ runs[r].cron = c
                   THEN [runs[r] EXCEPT !.cron = None] ELSE runs[r]
    BY <1>5 DEF DeleteCron
  <2>2. runs[r] # None => /\ [runs[r] EXCEPT !.cron = None].cron = None
                          /\ [runs[r] EXCEPT !.cron = None].status = runs[r].status
    BY DEF ExecTypeOK, Run
  <2> QED
    BY <2>1, <2>2 DEF Settles
<1>6. CASE Restart
  BY <1>0, <1>6 DEF Restart
<1>7. CASE UNCHANGED execVars
  BY <1>0, <1>7 DEF execVars
<1> QED
  BY <1>1, <1>2, <1>3, <1>4, <1>5, <1>6, <1>7 DEF ExecNext

\* The rows in flight of a cron are finitely many.
LEMMA RunningIsFinite ==
  \A c : IsFiniteSet(RunningFor(c)) /\ Cardinality(RunningFor(c)) \in Nat
  BY ExecutorAssumption, FS_Subset, FS_CardinalityType DEF RunningFor, RowsOf

\* The gate lets a fire in only below max_concurrent_runs.
LEMMA GateLeavesRoom ==
  ASSUME NEW c, NEW row, NEW backoff, NEW load,
         EvaluateAdmission(QuotaOf(row), Snapshot(c, backoff, load)) = "admit"
  PROVE  Cardinality(RunningFor(c)) < MaxConcurrent
<1>1. ~(Cardinality(RunningFor(c)) >= MaxConcurrent)
  BY DEF EvaluateAdmission, QuotaOf, Snapshot
<1> QED
  BY <1>1, RunningIsFinite, ExecutorAssumption

\* Every step keeps the room of an admission and the rail.
LEMMA RoomStep ==
  ASSUME Inv, [ExecNext]_execVars
  PROVE  RoomInv' /\ PerCronCap'
<1> USE ExecutorAssumption DEF Inv, TypeInv, tables, admit, watch, slots, life
<1>0. MaxConcurrent \in Nat
  OBVIOUS
<1>1. CASE \E a \in Admitters : CreateRun(a)
  <2>1. PICK a \in Admitters : CreateRun(a)
    BY <1>1
  <2>2. PICK r \in Runs :
          runs' = [runs EXCEPT ![r] = [cron |-> job[a].cron, status |-> "spawning",
                                      at |-> job[a].at]]
    BY <2>1 DEF CreateRun
  <2>3. \A b \in Admitters : pc'[b] \notin {"reserved", "counted"}
    BY <2>1 DEF CreateRun, LockInv, Locked, ExecTypeOK
  <2>4. RoomInv'
    BY <2>3 DEF RoomInv
  <2>5. ASSUME NEW c \in Crons PROVE Cardinality(RunningFor(c)') <= MaxConcurrent
    <3>1. CASE c = job[a].cron
      <4>1. RunningFor(c)' \subseteq RunningFor(c) \cup {r}
        BY <2>2 DEF RunningFor, RowsOf, ExecTypeOK
      <4>2. /\ IsFiniteSet(RunningFor(c) \cup {r})
            /\ Cardinality(RunningFor(c) \cup {r}) <= Cardinality(RunningFor(c)) + 1
        <5>1. IsFiniteSet(RunningFor(c)) /\ Cardinality(RunningFor(c)) \in Nat
          BY RunningIsFinite
        <5>2. /\ IsFiniteSet(RunningFor(c) \cup {r})
              /\ Cardinality(RunningFor(c) \cup {r}) =
                   IF r \in RunningFor(c) THEN Cardinality(RunningFor(c))
                   ELSE Cardinality(RunningFor(c)) + 1
          BY <5>1, FS_AddElement
        <5> QED
          BY <5>1, <5>2
      <4>3. /\ IsFiniteSet(RunningFor(c)')
            /\ Cardinality(RunningFor(c)') <= Cardinality(RunningFor(c) \cup {r})
        BY <4>1, <4>2, FS_Subset
      <4>4. Cardinality(RunningFor(c)) < MaxConcurrent
        BY <2>1, <3>1 DEF CreateRun, RoomInv
      <4>5. /\ Cardinality(RunningFor(c)) \in Nat /\ Cardinality(RunningFor(c)') \in Nat
            /\ Cardinality(RunningFor(c) \cup {r}) \in Nat
        BY <4>2, <4>3, RunningIsFinite, FS_CardinalityType
      <4> QED
        BY <1>0, <4>2, <4>3, <4>4, <4>5
    <3>2. CASE c # job[a].cron
      <4>1. RunningFor(c)' \subseteq RunningFor(c)
        BY <2>2, <3>2 DEF RunningFor, RowsOf, ExecTypeOK
      <4>2. /\ IsFiniteSet(RunningFor(c)')
            /\ Cardinality(RunningFor(c)') <= Cardinality(RunningFor(c))
        BY <4>1, RunningIsFinite, FS_Subset
      <4>3. Cardinality(RunningFor(c)) <= MaxConcurrent
        BY DEF PerCronCap
      <4> QED
        BY <1>0, <4>2, <4>3, RunningIsFinite, FS_CardinalityType
    <3> QED
      BY <3>1, <3>2
  <2> QED
    BY <2>4, <2>5 DEF PerCronCap
<1>2. CASE ~\E a \in Admitters : CreateRun(a)
  <2>1. \A r \in Runs : Settles(r)
    BY <1>2, OnlyInsertsAdd
  <2>2. ASSUME NEW c \in Crons
        PROVE  /\ Cardinality(RunningFor(c)') <= Cardinality(RunningFor(c))
               /\ Cardinality(RunningFor(c)) \in Nat /\ Cardinality(RunningFor(c)') \in Nat
    <3>1. RunningFor(c)' \subseteq RunningFor(c)
      BY <2>1 DEF RunningFor, RowsOf, Settles
    <3> QED
      BY <3>1, RunningIsFinite, FS_Subset, FS_CardinalityType
  <2>3. PerCronCap'
    BY <1>0, <2>2 DEF PerCronCap
  <2>4. ASSUME NEW a \in Admitters, pc'[a] \in {"reserved", "counted"}
        PROVE  /\ job'[a].cron = job[a].cron /\ job[a].cron \in Crons
               /\ Cardinality(RunningFor(job[a].cron)) < MaxConcurrent
    <3>1. \/ \E b \in Admitters : AdmitStep(b)
          \/ pc'[a] = pc[a] /\ job'[a] = job[a]
      <4>1. ASSUME NEW c \in Crons, ReceiveFire(c) PROVE pc'[a] = pc[a] /\ job'[a] = job[a]
        BY <2>4, <4>1 DEF ReceiveFire, ExecTypeOK
      <4>2. ASSUME NEW c \in Crons, NEW b \in Callers, RunNow(b, c)
            PROVE  pc'[a] = pc[a] /\ job'[a] = job[a]
        BY <2>4, <4>2 DEF RunNow, ExecTypeOK
      <4>3. ASSUME NEW r \in Runs, WatchStep(r) \/ SessionEnds(r) \/ SessionRemoved(r)
            PROVE  pc'[a] = pc[a] /\ job'[a] = job[a]
        BY <4>3 DEF WatchStep, Observe, PollFails, TimeOut, Finish, BumpFailures, CheckPause, CountFails,
                    Pause, ResetFailures, DropGlobal, DropForCron, SessionEnds, SessionRemoved
      <4>4. ASSUME NEW c \in Crons, SetEnabled(c) \/ BeginEdit(c) \/ Edit(c) \/ DeleteCron(c)
            PROVE  pc'[a] = pc[a] /\ job'[a] = job[a]
        BY <4>4 DEF SetEnabled, BeginEdit, Edit, DeleteCron
      <4>5. ~Restart
        BY <2>4 DEF Restart
      <4>6. UNCHANGED execVars => pc'[a] = pc[a] /\ job'[a] = job[a]
        BY DEF execVars
      <4> QED
        BY <4>1, <4>2, <4>3, <4>4, <4>5, <4>6 DEF ExecNext
    <3>2. CASE pc'[a] = pc[a] /\ job'[a] = job[a]
      BY <2>4, <3>2 DEF RoomInv, JobInv
    <3>3. ASSUME NEW b \in Admitters, AdmitStep(b), b # a
          PROVE  pc'[a] = pc[a] /\ job'[a] = job[a]
      BY <3>3 DEF AdmitStep, Acquire, Gate, GateFails, Audit, BumpForCron, CreateRun, CreateFails,
                  Spawn, SpawnFailed, Undo, UndoForCron, MarkFired, Leave, ExecTypeOK
    <3>4. CASE AdmitStep(a)
      <4>1. Gate(a) \/ BumpForCron(a)
        BY <2>4, <3>4 DEF AdmitStep, Acquire, GateFails, Audit, CreateRun, CreateFails, Spawn,
                          SpawnFailed, Undo, UndoForCron, MarkFired, Leave, Settled, ExecTypeOK
      <4>2. CASE Gate(a)
        <5>1. job' = job /\ job[a].cron \in Crons
          BY <4>2 DEF Gate, JobInv
        <5>2. \E backoff, load \in BOOLEAN :
                EvaluateAdmission(QuotaOf(job[a].row), Snapshot(job[a].cron, backoff, load))
                  = "admit"
          BY <2>4, <4>2 DEF Gate, Settled, ExecTypeOK
        <5> QED
          BY <5>1, <5>2, GateLeavesRoom
      <4>3. CASE BumpForCron(a)
        BY <4>3 DEF BumpForCron, JobInv, RoomInv
      <4> QED
        BY <4>1, <4>2, <4>3
    <3> QED
      BY <3>1, <3>2, <3>3, <3>4
  <2>5. RoomInv'
    <3> SUFFICES ASSUME NEW a \in Admitters, pc'[a] \in {"reserved", "counted"}
                 PROVE  Cardinality(RunningFor(job[a].cron)') < MaxConcurrent
      BY DEF RoomInv
    <3> QED
      BY <1>0, <2>2, <2>4
  <2> QED
    BY <2>3, <2>5
<1> QED
  BY <1>1, <1>2

-----------------------------------------------------------------------------
(* The theorems *)

\* The state the executor starts in satisfies the inductive invariant.
LEMMA InitInv == ExecInit => Inv
<1> SUFFICES ASSUME ExecInit PROVE Inv
  OBVIOUS
<1>1. LockInv /\ RoomInv
  BY DEF ExecInit, LockInv, Locked, RoomInv
<1>2. \A c : RunningFor(c) = {}
  BY DEF ExecInit, RunningFor, RowsOf
<1>3. PerCronCap
  BY <1>2, FS_EmptySet, ExecutorAssumption DEF PerCronCap
<1> QED
  BY <1>1, <1>3, InitTypes DEF Inv

\* The inductive invariant holds throughout every behaviour of the executor.
LEMMA Invariance == ExecSpec => []Inv
<1>1. ASSUME TypeInv, LockInv, [ExecNext]_execVars PROVE TypeInv'
  BY <1>1, AdmitTypes, WatchTypes, OtherTypes DEF ExecNext
<1>2. Inv /\ [ExecNext]_execVars => Inv'
  BY <1>1, LockStep, RoomStep DEF Inv
<1> QED
  BY InitInv, <1>2, PTL DEF ExecSpec

\* The tables, tasks and counters of the executor keep their types.
THEOREM ExecutorTypes == ExecSpec => []ExecTypeOK
<1>1. Inv => ExecTypeOK
  BY DEF Inv, TypeInv
<1> QED
  BY Invariance, <1>1, PTL

\* max_concurrent_runs holds for every number of callers, crons and runs, across
\* faults, edits, deletions and restarts.
THEOREM PerCronCapHolds == ExecSpec => []PerCronCap
<1>1. Inv => PerCronCap
  BY DEF Inv
<1> QED
  BY Invariance, <1>1, PTL

-----------------------------------------------------------------------------
(* The global rail *)

\* Giving a slot back does not raise the counter.
LEMMA LessIsLess == \A n \in Nat : Less(n) <= n
  BY DEF Less

\* Only the gate raises running_global, and it looks at the counter first.
LEMMA GlobalStep ==
  ASSUME ExecTypeOK, GlobalCap, [ExecNext]_execVars, ExecTypeOK'
  PROVE  GlobalCap'
<1> USE GlobalMaxAssumption DEF GlobalCap, tables, admit, watch, slots, life
<1>0. global \in Nat /\ global' \in Nat
  BY DEF ExecTypeOK
<1>1. ASSUME global' = global \/ global' = Less(global) \/ global' = 0 PROVE GlobalCap'
  BY <1>0, <1>1, LessIsLess
<1>2. ASSUME NEW a \in Admitters, Gate(a) PROVE GlobalCap'
  <2>1. \/ global' = global
        \/ /\ global' = global + 1
           /\ \E backoff, load \in BOOLEAN :
                EvaluateAdmission(QuotaOf(job[a].row), Snapshot(job[a].cron, backoff, load))
                  = "admit"
    BY <1>2 DEF Gate
  <2>2. ASSUME NEW backoff, NEW load,
               EvaluateAdmission(QuotaOf(job[a].row), Snapshot(job[a].cron, backoff, load))
                 = "admit"
        PROVE  ~(GlobalMax > 0 /\ global >= GlobalMax)
    BY <2>2 DEF EvaluateAdmission, Snapshot
  <2> QED
    BY <1>0, <1>1, <2>1, <2>2
<1>3. ASSUME NEW a \in Admitters, AdmitStep(a), ~Gate(a) PROVE GlobalCap'
  BY <1>1, <1>3 DEF AdmitStep, Acquire, GateFails, Audit, BumpForCron, CreateRun, CreateFails,
                    Spawn, SpawnFailed, Undo, UndoForCron, MarkFired, Leave
<1>4. ASSUME NEW r \in Runs, WatchStep(r) \/ SessionEnds(r) \/ SessionRemoved(r) PROVE GlobalCap'
  BY <1>1, <1>4 DEF WatchStep, Observe, PollFails, TimeOut, Finish, BumpFailures, CheckPause, CountFails,
                    Pause, ResetFailures, DropGlobal, DropForCron, SessionEnds, SessionRemoved
<1>5. ASSUME NEW c \in Crons,
             \/ ReceiveFire(c) \/ \E a \in Callers : RunNow(a, c)
             \/ SetEnabled(c) \/ BeginEdit(c) \/ Edit(c) \/ DeleteCron(c)
      PROVE  GlobalCap'
  BY <1>1, <1>5 DEF ReceiveFire, RunNow, SetEnabled, BeginEdit, Edit, DeleteCron
<1>6. CASE Restart \/ UNCHANGED execVars
  BY <1>1, <1>6 DEF Restart, execVars
<1> QED
  BY <1>2, <1>3, <1>4, <1>5, <1>6 DEF ExecNext

\* global_max_concurrent_runs holds for every number of callers, crons and runs:
\* the slots are released without the lock, but only taken under it.
THEOREM GlobalCapHolds == ExecSpec => []GlobalCap
<1>1. ExecInit => GlobalCap
  BY GlobalMaxAssumption DEF ExecInit, GlobalCap
<1>2. ExecTypeOK /\ ExecTypeOK' /\ GlobalCap /\ [ExecNext]_execVars => GlobalCap'
  BY GlobalStep
<1> QED
  BY <1>1, <1>2, ExecutorTypes, PTL DEF ExecSpec
-----------------------------------------------------------------------------
(* The slots and their holders *)

\* The holders of global slots and of the slots of a cron.
GlobalAdmitters == AdmittersAt({"reserved", "counted", "created", "undo"})
GlobalWatchers == WatchersAt(Holding)
CronAdmitters(c) ==
  {a \in AdmittersAt({"counted", "created", "undo", "undo_cron"}) : job[a].cron = c}
CronWatchers(c) == {r \in WatchersAt(Holding \cup {"drop_cron"}) : watched[r] = c}

\* One element more or less.
LEMMA OneMoreOrLess ==
  ASSUME NEW S, IsFiniteSet(S), NEW x
  PROVE  /\ Cardinality(S) \in Nat
         /\ x \notin S => Cardinality(S \cup {x}) = Cardinality(S) + 1
         /\ x \in S => Cardinality(S) > 0 /\ Cardinality(S \ {x}) = Cardinality(S) - 1
<1>1. Cardinality(S) \in Nat
  BY FS_CardinalityType
<1>2. x \notin S => Cardinality(S \cup {x}) = Cardinality(S) + 1
  BY FS_AddElement
<1>3. x \in S => Cardinality(S \ {x}) = Cardinality(S) - 1
  BY FS_RemoveElement
<1>4. x \in S => Cardinality(S) # 0
  BY FS_EmptySet
<1> QED
  BY <1>1, <1>2, <1>3, <1>4

\* Admitters with a slot hold the lock, so there is at most one; runs are finitely many.
LEMMA HoldersAreFinite ==
  ASSUME LockInv
  PROVE  /\ IsFiniteSet(GlobalAdmitters) /\ IsFiniteSet(GlobalWatchers)
         /\ \A c : IsFiniteSet(CronAdmitters(c)) /\ IsFiniteSet(CronWatchers(c))
         /\ Cardinality(GlobalAdmitters) \in Nat /\ Cardinality(GlobalWatchers) \in Nat
         /\ \A c : Cardinality(CronAdmitters(c)) \in Nat /\ Cardinality(CronWatchers(c)) \in Nat
<1>1. IsFiniteSet({lock})
  BY FS_Singleton
<1>2. GlobalAdmitters \subseteq {lock} /\ \A c : CronAdmitters(c) \subseteq {lock}
  BY DEF LockInv, Locked, GlobalAdmitters, CronAdmitters, AdmittersAt
<1>3. GlobalWatchers \subseteq Runs /\ \A c : CronWatchers(c) \subseteq Runs
  BY DEF GlobalWatchers, CronWatchers, WatchersAt
<1> QED
  BY <1>1, <1>2, <1>3, FS_Subset, FS_CardinalityType, ExecutorAssumption

\* Who held slots before a step holds them after it.
SameGlobal == global' = global /\ GlobalAdmitters' = GlobalAdmitters /\ GlobalWatchers' = GlobalWatchers
SameForCron(c) ==
  /\ perCron'[c] = perCron[c]
  /\ CronAdmitters(c)' = CronAdmitters(c) /\ CronWatchers(c)' = CronWatchers(c)

GlobalSlots == global = Cardinality(GlobalAdmitters) + Cardinality(GlobalWatchers)
CronSlots(c) == perCron[c] = Cardinality(CronAdmitters(c)) + Cardinality(CronWatchers(c))

\* The same holders and the same counters match as before.
LEMMA SameSlots ==
  /\ GlobalSlots /\ SameGlobal => GlobalSlots'
  /\ \A c \in Crons : CronSlots(c) /\ SameForCron(c) => CronSlots(c)'
  BY DEF GlobalSlots, SameGlobal, CronSlots, SameForCron

\* A step of an admission.
LEMMA AdmitSlots ==
  ASSUME TypeInv, LockInv, NEW a \in Admitters, AdmitStep(a), GlobalSlots, \A c \in Crons : CronSlots(c)
  PROVE  GlobalSlots' /\ \A c \in Crons : CronSlots(c)'
<1> USE DEF TypeInv, tables, watch, slots, life, AdmittersAt, WatchersAt
<1>0. job[a].cron \in Crons /\ job[a] \in Job
  BY DEF AdmitStep, Acquire, Gate, GateFails, Audit, BumpForCron, CreateRun, CreateFails, Spawn,
         SpawnFailed, Undo, UndoForCron, MarkFired, Leave, ExecTypeOK, JobInv
<1>1. /\ IsFiniteSet(GlobalAdmitters) /\ IsFiniteSet(GlobalWatchers)
      /\ \A c : IsFiniteSet(CronAdmitters(c)) /\ IsFiniteSet(CronWatchers(c))
      /\ Cardinality(GlobalAdmitters) \in Nat /\ Cardinality(GlobalWatchers) \in Nat
      /\ \A c : Cardinality(CronAdmitters(c)) \in Nat /\ Cardinality(CronWatchers(c)) \in Nat
  BY HoldersAreFinite
<1>2. Settled(a) \in {"mark", "leaving"}
  BY DEF Settled
\* Steps outside the places that hold slots.
<1>3. ASSUME NEW place, pc' = [pc EXCEPT ![a] = place], UNCHANGED <<watch, slots>>,
             pc[a] \notin {"reserved", "counted", "created", "undo", "undo_cron"},
             place \notin {"reserved", "counted", "created", "undo", "undo_cron"},
             \A b \in Admitters : b # a => job'[b] = job[b]
      PROVE  GlobalSlots' /\ \A c \in Crons : CronSlots(c)'
  <2>1. SameGlobal
    BY <1>3 DEF SameGlobal, GlobalAdmitters, GlobalWatchers, ExecTypeOK
  <2>2. \A c \in Crons : SameForCron(c)
    BY <1>3 DEF SameForCron, CronAdmitters, CronWatchers, ExecTypeOK
  <2> QED
    BY <2>1, <2>2, SameSlots
<1>4. CASE Acquire(a) \/ GateFails(a) \/ Audit(a) \/ MarkFired(a) \/ Leave(a)
  BY <1>2, <1>3, <1>4 DEF Acquire, GateFails, Audit, MarkFired, Leave, ExecTypeOK
\* Steps between places that hold the same slots.
<1>5. ASSUME NEW place, pc' = [pc EXCEPT ![a] = place], UNCHANGED <<watch, slots>>,
             pc[a] \in {"counted", "created", "undo"}, place \in {"counted", "created", "undo"},
             \A b \in Admitters : job'[b].cron = job[b].cron
      PROVE  GlobalSlots' /\ \A c \in Crons : CronSlots(c)'
  <2>1. SameGlobal
    BY <1>5 DEF SameGlobal, GlobalAdmitters, GlobalWatchers, ExecTypeOK
  <2>2. \A c \in Crons : SameForCron(c)
    BY <1>5 DEF SameForCron, CronAdmitters, CronWatchers, ExecTypeOK
  <2> QED
    BY <2>1, <2>2, SameSlots
<1>6. CASE CreateRun(a) \/ CreateFails(a) \/ SpawnFailed(a)
  <2>1. \A b \in Admitters : job'[b].cron = job[b].cron
    BY <1>6 DEF CreateRun, CreateFails, SpawnFailed, ExecTypeOK, Job
  <2> QED
    BY <1>5, <1>6, <2>1 DEF CreateRun, CreateFails, SpawnFailed
<1>7. CASE Gate(a)
  <2>1. CASE pc' = [pc EXCEPT ![a] = "reserved"] /\ global' = global + 1
    <3>1. GlobalAdmitters' = GlobalAdmitters \cup {a} /\ a \notin GlobalAdmitters
      BY <1>7, <2>1 DEF Gate, GlobalAdmitters, ExecTypeOK
    <3>2. GlobalWatchers' = GlobalWatchers
      BY <1>7 DEF Gate, GlobalWatchers
    <3>3. Cardinality(GlobalAdmitters') = Cardinality(GlobalAdmitters) + 1
      BY <1>1, <3>1, OneMoreOrLess
    <3>4. GlobalSlots'
      <4>1. Cardinality(GlobalAdmitters) \in Nat /\ Cardinality(GlobalWatchers) \in Nat
        BY <1>1, FS_CardinalityType
      <4> QED
        BY <2>1, <3>2, <3>3, <4>1 DEF GlobalSlots
    <3>5. \A c \in Crons : SameForCron(c)
      BY <1>7, <2>1 DEF Gate, SameForCron, CronAdmitters, CronWatchers, ExecTypeOK
    <3> QED
      BY <3>4, <3>5, SameSlots
  <2>2. CASE ~(pc' = [pc EXCEPT ![a] = "reserved"] /\ global' = global + 1)
    BY <1>2, <1>3, <1>7, <2>2 DEF Gate
  <2> QED
    BY <2>1, <2>2
<1>8. CASE BumpForCron(a)
  <2>1. SameGlobal
    BY <1>8 DEF BumpForCron, SameGlobal, GlobalAdmitters, GlobalWatchers, ExecTypeOK
  <2>2. ASSUME NEW c \in Crons, c # job[a].cron PROVE SameForCron(c)
    BY <1>0, <1>8, <2>2 DEF BumpForCron, SameForCron, CronAdmitters, CronWatchers, ExecTypeOK
  <2>3. ASSUME NEW c \in Crons, c = job[a].cron PROVE CronSlots(c)'
    <3>1. CronAdmitters(c)' = CronAdmitters(c) \cup {a} /\ a \notin CronAdmitters(c)
      BY <1>8, <2>3 DEF BumpForCron, CronAdmitters, ExecTypeOK
    <3>2. CronWatchers(c)' = CronWatchers(c) /\ perCron'[c] = perCron[c] + 1
      BY <1>8, <2>3 DEF BumpForCron, CronWatchers, ExecTypeOK
    <3>3. CronSlots(c) /\ Cardinality(CronAdmitters(c)') = Cardinality(CronAdmitters(c)) + 1
      BY <1>1, <3>1, OneMoreOrLess
    <3> QED
      BY <1>1, <3>2, <3>3 DEF CronSlots
  <2> QED
    BY <1>0, <2>1, <2>2, <2>3, SameSlots
<1>9. CASE Spawn(a)
  <2> DEFINE r == job[a].run
  <2>0. r \in Runs /\ watcher[r] = "none" /\ pc[a] = "created"
    BY <1>9 DEF Spawn, JobInv
  <2>1. /\ watcher' = [watcher EXCEPT ![r] = "polling"]
        /\ watched' = [watched EXCEPT ![r] = job[a].cron]
        /\ pc' = [pc EXCEPT ![a] = Settled(a)] /\ UNCHANGED <<job, slots>>
    BY <1>9 DEF Spawn
  <2> HIDE DEF r
  <2>2. GlobalSlots'
    <3>1. GlobalAdmitters' = GlobalAdmitters \ {a} /\ a \in GlobalAdmitters
      BY <1>2, <2>0, <2>1 DEF GlobalAdmitters, ExecTypeOK
    <3>2. GlobalWatchers' = GlobalWatchers \cup {r} /\ r \notin GlobalWatchers
      BY <2>0, <2>1 DEF GlobalWatchers, Holding, ExecTypeOK
    <3>3. /\ Cardinality(GlobalAdmitters') = Cardinality(GlobalAdmitters) - 1
          /\ Cardinality(GlobalWatchers') = Cardinality(GlobalWatchers) + 1
      BY <1>1, <3>1, <3>2, OneMoreOrLess
    <3> QED
      BY <1>1, <2>1, <3>3 DEF GlobalSlots
  <2>3. ASSUME NEW c \in Crons, c = job[a].cron PROVE CronSlots(c)'
    <3>1. CronAdmitters(c)' = CronAdmitters(c) \ {a} /\ a \in CronAdmitters(c)
      BY <1>2, <2>0, <2>1, <2>3 DEF CronAdmitters, ExecTypeOK
    <3>2. CronWatchers(c)' = CronWatchers(c) \cup {r} /\ r \notin CronWatchers(c)
      BY <2>0, <2>1, <2>3 DEF CronWatchers, Holding, ExecTypeOK
    <3>3. /\ Cardinality(CronAdmitters(c)') = Cardinality(CronAdmitters(c)) - 1
          /\ Cardinality(CronWatchers(c)') = Cardinality(CronWatchers(c)) + 1
      BY <1>1, <3>1, <3>2, OneMoreOrLess
    <3>4. CronSlots(c) /\ perCron'[c] = perCron[c]
      BY <2>1
    <3> QED
      BY <1>1, <3>3, <3>4 DEF CronSlots
  <2>4. ASSUME NEW c \in Crons, c # job[a].cron PROVE SameForCron(c)
    <3>1. CronAdmitters(c)' = CronAdmitters(c)
      BY <1>2, <2>0, <2>1, <2>4 DEF CronAdmitters, ExecTypeOK
    <3>2. CronWatchers(c)' = CronWatchers(c)
      BY <2>0, <2>1, <2>4 DEF CronWatchers, Holding, ExecTypeOK
    <3> QED
      BY <2>1, <3>1, <3>2 DEF SameForCron
  <2> QED
    BY <2>2, <2>3, <2>4, SameSlots
<1>10. CASE Undo(a)
  <2>1. GlobalSlots'
    <3>1. GlobalAdmitters' = GlobalAdmitters \ {a} /\ a \in GlobalAdmitters
      BY <1>10 DEF Undo, GlobalAdmitters, ExecTypeOK
    <3>2. GlobalWatchers' = GlobalWatchers /\ global' = Less(global)
      BY <1>10 DEF Undo, GlobalWatchers
    <3> QED
      BY <1>1, <3>1, <3>2, OneMoreOrLess DEF GlobalSlots, Less
  <2>2. \A c \in Crons : SameForCron(c)
    BY <1>10 DEF Undo, SameForCron, CronAdmitters, CronWatchers, ExecTypeOK
  <2> QED
    BY <2>1, <2>2, SameSlots
<1>11. CASE UndoForCron(a)
  <2>1. SameGlobal
    BY <1>2, <1>11 DEF UndoForCron, SameGlobal, GlobalAdmitters, GlobalWatchers, ExecTypeOK
  <2>2. ASSUME NEW c \in Crons, c # job[a].cron PROVE SameForCron(c)
    BY <1>0, <1>2, <1>11, <2>2 DEF UndoForCron, SameForCron, CronAdmitters, CronWatchers, ExecTypeOK
  <2>3. ASSUME NEW c \in Crons, c = job[a].cron PROVE CronSlots(c)'
    <3>1. CronAdmitters(c)' = CronAdmitters(c) \ {a} /\ a \in CronAdmitters(c)
      BY <1>2, <1>11, <2>3 DEF UndoForCron, CronAdmitters, ExecTypeOK
    <3>2. CronWatchers(c)' = CronWatchers(c) /\ perCron'[c] = Less(perCron[c])
      BY <1>11, <2>3 DEF UndoForCron, CronWatchers, ExecTypeOK
    <3>3. /\ CronSlots(c) /\ Cardinality(CronAdmitters(c)) > 0
          /\ Cardinality(CronAdmitters(c)') = Cardinality(CronAdmitters(c)) - 1
      BY <1>1, <3>1, OneMoreOrLess
    <3> QED
      BY <1>1, <3>2, <3>3 DEF CronSlots, Less
  <2> QED
    BY <2>1, <2>2, <2>3, SameSlots
<1> QED
  BY <1>4, <1>6, <1>7, <1>8, <1>9, <1>10, <1>11 DEF AdmitStep

\* A step of a watcher.
LEMMA WatchSlots ==
  ASSUME TypeInv, LockInv, NEW r \in Runs, WatchStep(r), GlobalSlots, \A c \in Crons : CronSlots(c)
  PROVE  GlobalSlots' /\ \A c \in Crons : CronSlots(c)'
<1> USE DEF TypeInv, tables, admit, slots, life, AdmittersAt, WatchersAt
<1>1. /\ IsFiniteSet(GlobalAdmitters) /\ IsFiniteSet(GlobalWatchers)
      /\ \A c : IsFiniteSet(CronAdmitters(c)) /\ IsFiniteSet(CronWatchers(c))
      /\ Cardinality(GlobalAdmitters) \in Nat /\ Cardinality(GlobalWatchers) \in Nat
      /\ \A c : Cardinality(CronAdmitters(c)) \in Nat /\ Cardinality(CronWatchers(c)) \in Nat
  BY HoldersAreFinite
<1>2. ASSUME NEW place \in Holding, watcher' = [watcher EXCEPT ![r] = place],
             watcher[r] \in Holding, UNCHANGED <<admit, slots, watched>>
      PROVE  GlobalSlots' /\ \A c \in Crons : CronSlots(c)'
  <2>1. SameGlobal
    BY <1>2 DEF SameGlobal, GlobalAdmitters, GlobalWatchers, ExecTypeOK
  <2>2. \A c \in Crons : SameForCron(c)
    BY <1>2 DEF SameForCron, CronAdmitters, CronWatchers, ExecTypeOK
  <2> QED
    BY <2>1, <2>2, SameSlots
<1>3. CASE \/ Observe(r) \/ PollFails(r) \/ TimeOut(r) \/ Finish(r) \/ BumpFailures(r) \/ CheckPause(r)
           \/ CountFails(r) \/ Pause(r) \/ ResetFailures(r)
  BY <1>2, <1>3 DEF Observe, PollFails, TimeOut, Finish, BumpFailures, CheckPause, CountFails, Pause,
                    ResetFailures, Holding
<1>4. CASE DropGlobal(r)
  <2>1. GlobalSlots'
    <3>1. GlobalWatchers' = GlobalWatchers \ {r} /\ r \in GlobalWatchers
      BY <1>4 DEF DropGlobal, GlobalWatchers, Holding, ExecTypeOK
    <3>2. GlobalAdmitters' = GlobalAdmitters /\ global' = Less(global)
      BY <1>4 DEF DropGlobal, GlobalAdmitters
    <3>3. /\ Cardinality(GlobalWatchers) > 0
          /\ Cardinality(GlobalWatchers') = Cardinality(GlobalWatchers) - 1
      BY <1>1, <3>1, OneMoreOrLess
    <3> QED
      BY <1>1, <3>2, <3>3 DEF GlobalSlots, Less
  <2>2. \A c \in Crons : SameForCron(c)
    BY <1>4 DEF DropGlobal, SameForCron, CronAdmitters, CronWatchers, Holding, ExecTypeOK
  <2> QED
    BY <2>1, <2>2, SameSlots
<1>5. CASE DropForCron(r)
  <2>0. watched[r] \in Crons
    BY <1>5 DEF DropForCron, WatchInv
  <2>1. SameGlobal
    BY <1>5 DEF DropForCron, SameGlobal, GlobalAdmitters, GlobalWatchers, Holding, ExecTypeOK
  <2>2. ASSUME NEW c \in Crons, c # watched[r] PROVE SameForCron(c)
    <3>1. perCron'[c] = perCron[c] /\ CronAdmitters(c)' = CronAdmitters(c)
      BY <1>5, <2>2 DEF DropForCron, CronAdmitters, ExecTypeOK
    <3>2. CronWatchers(c)' = CronWatchers(c)
      BY <1>5, <2>2, ExecutorAssumption DEF DropForCron, CronWatchers, Holding, ExecTypeOK
    <3> QED
      BY <3>1, <3>2 DEF SameForCron
  <2>3. ASSUME NEW c \in Crons, c = watched[r] PROVE CronSlots(c)'
    <3>1. CronWatchers(c)' = CronWatchers(c) \ {r} /\ r \in CronWatchers(c)
      BY <1>5, <2>3, ExecutorAssumption DEF DropForCron, CronWatchers, Holding, ExecTypeOK
    <3>2. CronAdmitters(c)' = CronAdmitters(c) /\ perCron'[c] = Less(perCron[c])
      BY <1>5, <2>3 DEF DropForCron, CronAdmitters, ExecTypeOK
    <3>3. /\ CronSlots(c) /\ Cardinality(CronWatchers(c)) > 0
          /\ Cardinality(CronWatchers(c)') = Cardinality(CronWatchers(c)) - 1
      BY <1>1, <3>1, OneMoreOrLess
    <3> QED
      BY <1>1, <3>2, <3>3 DEF CronSlots, Less
  <2> QED
    BY <2>1, <2>2, <2>3, SameSlots
<1> QED
  BY <1>3, <1>4, <1>5 DEF WatchStep

\* Nobody else touches a slot, and a restart gives all of them back.
LEMMA OtherSlots ==
  ASSUME TypeInv, GlobalSlots, \A c \in Crons : CronSlots(c),
         \/ \E c \in Crons : ReceiveFire(c) \/ \E a \in Callers : RunNow(a, c)
         \/ \E r \in Runs : SessionEnds(r) \/ SessionRemoved(r)
         \/ \E c \in Crons : SetEnabled(c) \/ BeginEdit(c) \/ Edit(c) \/ DeleteCron(c)
         \/ Restart
         \/ UNCHANGED execVars
  PROVE  GlobalSlots' /\ \A c \in Crons : CronSlots(c)'
<1> USE DEF TypeInv, tables, admit, watch, slots, life, AdmittersAt, WatchersAt
<1>1. ASSUME NEW a \in Admitters, pc[a] = "idle", pc' = [pc EXCEPT ![a] = "waiting"],
             \A b \in Admitters : b # a => job'[b] = job[b], UNCHANGED <<watch, slots>>
      PROVE  GlobalSlots' /\ \A c \in Crons : CronSlots(c)'
  <2>1. SameGlobal
    BY <1>1 DEF SameGlobal, GlobalAdmitters, GlobalWatchers, ExecTypeOK
  <2>2. \A c \in Crons : SameForCron(c)
    BY <1>1 DEF SameForCron, CronAdmitters, CronWatchers, ExecTypeOK
  <2> QED
    BY <2>1, <2>2, SameSlots
<1>2. ASSUME NEW c \in Crons, ReceiveFire(c) PROVE GlobalSlots' /\ \A d \in Crons : CronSlots(d)'
  BY <1>1, <1>2 DEF ReceiveFire, Admitters, ExecTypeOK
<1>3. ASSUME NEW c \in Crons, NEW a \in Callers, RunNow(a, c)
      PROVE  GlobalSlots' /\ \A d \in Crons : CronSlots(d)'
  BY <1>1, <1>3 DEF RunNow, Admitters, ExecTypeOK
<1>4. ASSUME UNCHANGED <<admit, watch, slots>> PROVE GlobalSlots' /\ \A c \in Crons : CronSlots(c)'
  BY <1>4, SameSlots DEF SameGlobal, SameForCron, GlobalAdmitters, GlobalWatchers, CronAdmitters,
                         CronWatchers
<1>5. CASE \/ \E r \in Runs : SessionEnds(r) \/ SessionRemoved(r)
           \/ \E c \in Crons : SetEnabled(c) \/ BeginEdit(c) \/ Edit(c) \/ DeleteCron(c)
           \/ UNCHANGED execVars
  BY <1>4, <1>5 DEF SessionEnds, SessionRemoved, SetEnabled, BeginEdit, Edit, DeleteCron, execVars
<1>6. CASE Restart
  <2>1. /\ GlobalAdmitters' = {} /\ GlobalWatchers' = {} /\ global' = 0
        /\ \A c \in Crons : CronAdmitters(c)' = {} /\ CronWatchers(c)' = {} /\ perCron'[c] = 0
    BY <1>6 DEF Restart, GlobalAdmitters, GlobalWatchers, CronAdmitters, CronWatchers, Holding
  <2> QED
    BY <2>1, FS_EmptySet DEF GlobalSlots, CronSlots
<1> QED
  BY <1>2, <1>3, <1>5, <1>6

\* The counters neither leak nor run ahead of who holds slots, for every number of
\* callers and runs and on every rollback path, restarts and failing statements included.
THEOREM SlotsAreHeld == ExecSpec => []SlotsMatchHolders
<1> DEFINE Slots == GlobalSlots /\ \A c \in Crons : CronSlots(c)
<1>1. ExecInit => Slots
  <2> SUFFICES ASSUME ExecInit PROVE Slots
    OBVIOUS
  <2>1. /\ GlobalAdmitters = {} /\ GlobalWatchers = {} /\ global = 0
        /\ \A c \in Crons : CronAdmitters(c) = {} /\ CronWatchers(c) = {} /\ perCron[c] = 0
    BY DEF ExecInit, AdmittersAt, WatchersAt, GlobalAdmitters, GlobalWatchers, CronAdmitters,
           CronWatchers, Holding
  <2> QED
    BY <2>1, FS_EmptySet DEF GlobalSlots, CronSlots
<1>2. Inv /\ Slots /\ [ExecNext]_execVars => Slots'
  BY AdmitSlots, WatchSlots, OtherSlots DEF ExecNext, Inv
<1>3. Slots => SlotsMatchHolders
  BY DEF SlotsMatchHolders, GlobalSlots, CronSlots, GlobalAdmitters, GlobalWatchers,
         CronAdmitters, CronWatchers
<1> HIDE DEF Slots
<1> QED
  BY <1>1, <1>2, <1>3, Invariance, PTL DEF ExecSpec

-----------------------------------------------------------------------------
(* The rows and the runs *)

\* What a step does to a run outside the watcher's Finish and the admission's inserts,
\* spawns and rollbacks: nothing but forget its cron.
KeepsStatus(r) ==
  /\ runs[r] = None <=> runs'[r] = None
  /\ runs[r] # None => runs'[r].status = runs[r].status

\* Only Finish, the inserts, the spawn and its rollback write a status.
LEMMA OthersKeepStatus ==
  ASSUME TypeInv, [ExecNext]_execVars, ~\E q \in Runs : Finish(q),
         ~\E a \in Admitters : Audit(a) \/ CreateRun(a) \/ Spawn(a) \/ SpawnFailed(a)
  PROVE  \A r \in Runs : KeepsStatus(r)
<1> USE DEF TypeInv, tables, admit, watch, slots, life
<1>1. ASSUME runs' = runs PROVE \A r \in Runs : KeepsStatus(r)
  BY <1>1 DEF KeepsStatus
<1>2. ASSUME NEW c \in Crons, DeleteCron(c) PROVE \A r \in Runs : KeepsStatus(r)
  <2> SUFFICES ASSUME NEW r \in Runs PROVE KeepsStatus(r)
    OBVIOUS
  <2>1. runs'[r] = IF runs[r] # None /\ runs[r].cron = c
                   THEN [runs[r] EXCEPT !.cron = None] ELSE runs[r]
    BY <1>2 DEF DeleteCron
  <2>2. runs[r] # None => /\ [runs[r] EXCEPT !.cron = None] \in Run
                          /\ [runs[r] EXCEPT !.cron = None].status = runs[r].status
    BY DEF ExecTypeOK, Run
  <2> QED
    BY <2>1, <2>2, NoRowAssumption DEF KeepsStatus
<1>3. ASSUME NEW c \in Crons,
             \/ ReceiveFire(c) \/ \E a \in Callers : RunNow(a, c)
             \/ SetEnabled(c) \/ BeginEdit(c) \/ Edit(c)
      PROVE  runs' = runs
  BY <1>3 DEF ReceiveFire, RunNow, SetEnabled, BeginEdit, Edit
<1>4. ASSUME NEW a \in Admitters, AdmitStep(a) PROVE runs' = runs
  BY <1>4 DEF AdmitStep, Acquire, Gate, GateFails, BumpForCron, CreateFails, Undo, UndoForCron,
              MarkFired, Leave
<1>5. ASSUME NEW r \in Runs, WatchStep(r) \/ SessionEnds(r) \/ SessionRemoved(r) PROVE runs' = runs
  BY <1>5 DEF WatchStep, Observe, PollFails, TimeOut, BumpFailures, CheckPause, CountFails, Pause,
              ResetFailures, DropGlobal, DropForCron, SessionEnds, SessionRemoved
<1>6. Restart \/ UNCHANGED execVars => runs' = runs
  BY DEF Restart, execVars
<1> QED
  BY <1>1, <1>2, <1>3, <1>4, <1>5, <1>6 DEF ExecNext

\* A live session's run is running, or has one of the verdicts a live session can get;
\* who writes another one saw it end.
LiveInv ==
  \A r \in Runs :
    /\ session[r] = "live" => runs[r] # None /\ runs[r].status \in {"running"} \cup LiveVerdicts
    /\ watcher[r] = "finishing" /\ session[r] = "live" => verdict[r] \in LiveVerdicts

\* Only a spawn makes a session live, and only watchers decide.
LEMMA QuietSessions ==
  ASSUME TypeInv, LiveInv, [ExecNext]_execVars, ~\E a \in Admitters : Spawn(a), NEW r \in Runs
  PROVE  /\ session'[r] = "live" => session[r] = "live"
         /\ watcher'[r] = "finishing" /\ session'[r] = "live" => verdict'[r] \in LiveVerdicts
<1> USE DEF TypeInv, LiveInv, tables, admit, watch, slots, life
<1>1. ASSUME NEW c \in Crons,
             \/ ReceiveFire(c) \/ \E a \in Callers : RunNow(a, c)
             \/ SetEnabled(c) \/ BeginEdit(c) \/ Edit(c) \/ DeleteCron(c)
      PROVE  UNCHANGED <<session, watch>>
  BY <1>1 DEF ReceiveFire, RunNow, SetEnabled, BeginEdit, Edit, DeleteCron
<1>2. ASSUME NEW a \in Admitters, AdmitStep(a) PROVE UNCHANGED <<session, watch>>
  BY <1>2 DEF AdmitStep, Acquire, Gate, GateFails, Audit, BumpForCron, CreateRun, CreateFails,
              SpawnFailed, Undo, UndoForCron, MarkFired, Leave
<1>3. ASSUME NEW q \in Runs, SessionEnds(q) \/ SessionRemoved(q)
      PROVE  (session'[r] = "live" => session[r] = "live") /\ UNCHANGED watch
  BY <1>3 DEF SessionEnds, SessionRemoved, ExecTypeOK
<1>4. ASSUME NEW q \in Runs, WatchStep(q)
      PROVE  /\ session' = session
             /\ watcher'[r] = "finishing" /\ session[r] = "live" => verdict'[r] \in LiveVerdicts
  BY <1>4 DEF WatchStep, Observe, PollFails, TimeOut, Finish, BumpFailures, CheckPause, CountFails, Pause,
              ResetFailures, DropGlobal, DropForCron, ExecTypeOK, LiveVerdicts
<1>5. CASE Restart
  BY <1>5 DEF Restart
<1>6. CASE UNCHANGED execVars
  BY <1>6 DEF execVars
<1> QED
  BY <1>1, <1>2, <1>3, <1>4, <1>5, <1>6 DEF ExecNext

\* Every step keeps the status of a live session running or one of its verdicts.
LEMMA LiveStep ==
  ASSUME TypeInv, LiveInv, [ExecNext]_execVars
  PROVE  LiveInv'
<1> USE DEF TypeInv, LiveInv
<1>1. CASE \E a \in Admitters : Spawn(a)
  <2>1. PICK a \in Admitters : Spawn(a)
    BY <1>1
  <2>2. /\ job[a].run \in Runs /\ runs[job[a].run] \in Run /\ watcher[job[a].run] = "none"
        /\ runs[job[a].run] # None
    BY <2>1 DEF Spawn, JobInv, ExecTypeOK
  <2>3. /\ runs' = [runs EXCEPT ![job[a].run] = [runs[job[a].run] EXCEPT !.status = "running"]]
        /\ session' = [session EXCEPT ![job[a].run] = "live"]
        /\ watcher' = [watcher EXCEPT ![job[a].run] = "polling"] /\ verdict' = verdict
    BY <2>1 DEF Spawn
  <2>4. /\ [runs[job[a].run] EXCEPT !.status = "running"].status = "running"
        /\ [runs[job[a].run] EXCEPT !.status = "running"] # None
    BY <2>2, RunUpdates, NoRowAssumption
  <2> QED
    BY <2>2, <2>3, <2>4 DEF ExecTypeOK
<1>2. CASE ~\E a \in Admitters : Spawn(a)
  <2> SUFFICES ASSUME NEW r \in Runs
               PROVE  /\ session[r] = "live" => runs'[r] # None /\ runs'[r].status \in {"running"} \cup LiveVerdicts
    BY <1>2, QuietSessions
  <2>1. CASE \E q \in Runs : Finish(q)
    <3>1. PICK q \in Runs : Finish(q)
      BY <2>1
    <3>2. runs[q] \in Run /\ runs[q] # None /\ verdict[q] \in Failure \cup {"completed"}
      BY <3>1 DEF Finish, WatchInv, ExecTypeOK, Failure
    <3>3. \/ runs' = [runs EXCEPT ![q] = [runs[q] EXCEPT !.status = verdict[q]]]
          \/ runs' = runs
      BY <3>1 DEF Finish
    <3>4. /\ [runs[q] EXCEPT !.status = verdict[q]].status = verdict[q]
          /\ [runs[q] EXCEPT !.status = verdict[q]] # None
      <4>1. [runs[q] EXCEPT !.status = verdict[q]] \in Run
        BY <3>2, RunUpdates DEF Failure
      <4>2. [runs[q] EXCEPT !.status = verdict[q]].status = verdict[q]
        BY <3>2, RunUpdates
      <4> QED
        BY <4>1, <4>2, NoRowAssumption
    <3>5. watcher[q] = "finishing"
      BY <3>1 DEF Finish
    <3>6. r # q => runs'[r] = runs[r]
      BY <3>3 DEF ExecTypeOK
    <3>7. r = q /\ session[q] = "live" =>
            runs'[q] # None /\ runs'[q].status \in {"running"} \cup LiveVerdicts
      BY <3>3, <3>4, <3>5 DEF ExecTypeOK
    <3> QED
      BY <3>6, <3>7
  <2>2. CASE \E a \in Admitters : Audit(a) \/ CreateRun(a) \/ SpawnFailed(a)
    <3>1. PICK a \in Admitters : Audit(a) \/ CreateRun(a) \/ SpawnFailed(a)
      BY <2>2
    <3>2. CASE Audit(a) \/ CreateRun(a)
      BY <3>2 DEF Audit, CreateRun, ExecTypeOK
    <3>3. CASE SpawnFailed(a)
      <4>1. job[a].run \in Runs /\ runs[job[a].run].status = "spawning"
        BY <3>3 DEF SpawnFailed, JobInv
      <4>2. r # job[a].run => runs'[r] = runs[r]
        BY <3>3 DEF SpawnFailed, ExecTypeOK
      <4> QED
        BY <4>1, <4>2 DEF LiveVerdicts
    <3> QED
      BY <3>1, <3>2, <3>3
  <2>3. CASE ~(\E q \in Runs : Finish(q)) /\ ~\E a \in Admitters : Audit(a) \/ CreateRun(a) \/ SpawnFailed(a)
    <3>1. KeepsStatus(r)
      BY <1>2, <2>3, OthersKeepStatus
    <3> QED
      BY <3>1 DEF KeepsStatus
  <2> QED
    BY <2>1, <2>2, <2>3
<1> QED
  BY <1>1, <1>2

\* A session outlives its runs row only if it was timed out or a poll of it failed, and
\* the row says which, whatever other statement fails and however often the daemon is
\* restarted.
THEOREM RowsEndWithSessions == ExecSpec => []EndedRowsHaveEndedSessions
<1>1. ExecInit => LiveInv
  BY DEF ExecInit, LiveInv
<1>2. Inv /\ LiveInv /\ [ExecNext]_execVars => LiveInv'
  BY LiveStep DEF Inv
<1>3. LiveInv => EndedRowsHaveEndedSessions
  BY DEF LiveInv, EndedRowsHaveEndedSessions, InFlight
<1> QED
  BY <1>1, <1>2, <1>3, Invariance, PTL DEF ExecSpec

\* A row in flight belongs to the admission that has just inserted it, or to a watcher
\* that has not written it yet.
OwnedInv ==
  \A r \in Runs : runs[r] # None /\ runs[r].status \in InFlight =>
    \/ \E a \in Admitters : pc[a] = "created" /\ job[a].run = r
    \/ watcher[r] \in {"polling", "finishing"}

\* Whoever does not finish, spawn or roll back the run r leaves its owner alone.
LEMMA OwnersStay ==
  ASSUME TypeInv, [ExecNext]_execVars, ~Restart, NEW r \in Runs, ~Finish(r),
         ~\E a \in Admitters : job[a].run = r /\ (Spawn(a) \/ SpawnFailed(a))
  PROVE  /\ watcher[r] \in {"polling", "finishing"} => watcher'[r] \in {"polling", "finishing"}
         /\ \A a \in Admitters : pc[a] = "created" /\ job[a].run = r =>
              pc'[a] = "created" /\ job'[a].run = r
<1> USE DEF TypeInv, tables, admit, watch, slots, life
<1>1. ASSUME NEW c \in Crons, ReceiveFire(c)
      PROVE  UNCHANGED watch /\ \A a \in Admitters : pc[a] = "created" => pc'[a] = pc[a] /\ job'[a] = job[a]
  BY <1>1 DEF ReceiveFire, ExecTypeOK
<1>2. ASSUME NEW c \in Crons, NEW b \in Callers, RunNow(b, c)
      PROVE  UNCHANGED watch /\ \A a \in Admitters : pc[a] = "created" => pc'[a] = pc[a] /\ job'[a] = job[a]
  BY <1>2 DEF RunNow, ExecTypeOK
<1>3. ASSUME NEW c \in Crons, SetEnabled(c) \/ BeginEdit(c) \/ Edit(c) \/ DeleteCron(c)
      PROVE  UNCHANGED <<admit, watch>>
  BY <1>3 DEF SetEnabled, BeginEdit, Edit, DeleteCron
<1>4. ASSUME NEW q \in Runs, SessionEnds(q) \/ SessionRemoved(q) PROVE UNCHANGED <<admit, watch>>
  BY <1>4 DEF SessionEnds, SessionRemoved
<1>5. ASSUME NEW q \in Runs, WatchStep(q)
      PROVE  /\ UNCHANGED admit
             /\ watcher[r] \in {"polling", "finishing"} => watcher'[r] \in {"polling", "finishing"}
  BY <1>5 DEF WatchStep, Observe, PollFails, TimeOut, Finish, BumpFailures, CheckPause, CountFails, Pause,
              ResetFailures, DropGlobal, DropForCron, ExecTypeOK
<1>6. ASSUME NEW b \in Admitters, AdmitStep(b), ~Spawn(b), ~SpawnFailed(b)
      PROVE  UNCHANGED watch /\ \A a \in Admitters : pc[a] = "created" => pc'[a] = pc[a] /\ job'[a] = job[a]
  BY <1>6 DEF AdmitStep, Acquire, Gate, GateFails, Audit, BumpForCron, CreateRun, CreateFails,
              Undo, UndoForCron, MarkFired, Leave, ExecTypeOK
<1>7. ASSUME NEW b \in Admitters, Spawn(b) \/ SpawnFailed(b)
      PROVE  /\ watcher[r] \in {"polling", "finishing"} => watcher'[r] \in {"polling", "finishing"}
             /\ \A a \in Admitters : pc[a] = "created" /\ job[a].run = r =>
                  pc'[a] = "created" /\ job'[a].run = r
  <2>1. job[b].run # r /\ job[b].run \in Runs
    BY <1>7 DEF Spawn, SpawnFailed, JobInv
  <2> QED
    BY <1>7, <2>1 DEF Spawn, SpawnFailed, ExecTypeOK
<1>8. CASE UNCHANGED execVars
  BY <1>8 DEF execVars
<1> QED
  BY <1>1, <1>2, <1>3, <1>4, <1>5, <1>6, <1>7, <1>8 DEF ExecNext

\* Where finish does not fail, every step but a restart leaves a row in flight an owner.
LEMMA OwnedStep ==
  ASSUME "finish" \notin Faults, TypeInv, OwnedInv, [ExecNext]_execVars, ~Restart
  PROVE  OwnedInv'
<1> USE DEF TypeInv
<1> SUFFICES ASSUME NEW r \in Runs, runs'[r] # None, runs'[r].status \in InFlight
             PROVE  \/ \E a \in Admitters : pc'[a] = "created" /\ job'[a].run = r
                    \/ watcher'[r] \in {"polling", "finishing"}
  BY DEF OwnedInv
<1>1. ~Finish(r)
  <2> SUFFICES ASSUME Finish(r) PROVE FALSE
    OBVIOUS
  <2>1. runs[r] \in Run /\ verdict[r] \in Failure \cup {"completed"}
    BY DEF Finish, WatchInv, ExecTypeOK, Failure
  <2>2. runs' = [runs EXCEPT ![r] = [runs[r] EXCEPT !.status = verdict[r]]]
    BY DEF Finish
  <2>3. [runs[r] EXCEPT !.status = verdict[r]].status \notin InFlight
    BY <2>1, RunUpdates DEF InFlight, Failure
  <2> QED
    BY <2>2, <2>3 DEF ExecTypeOK
<1>2. CASE \E a \in Admitters : CreateRun(a) /\ runs[r] = None
  BY <1>2 DEF CreateRun, ExecTypeOK
<1>3. CASE \E a \in Admitters : job[a].run = r /\ Spawn(a)
  BY <1>3 DEF Spawn, ExecTypeOK
<1>4. ~\E a \in Admitters : job[a].run = r /\ SpawnFailed(a)
  <2> SUFFICES ASSUME NEW a \in Admitters, job[a].run = r, SpawnFailed(a) PROVE FALSE
    OBVIOUS
  <2>1. runs[r] \in Run
    BY DEF SpawnFailed, JobInv, ExecTypeOK
  <2>2. runs' = [runs EXCEPT ![r] = [runs[r] EXCEPT !.status = "failed"]]
    BY DEF SpawnFailed
  <2>3. [runs[r] EXCEPT !.status = "failed"].status \notin InFlight
    BY <2>1, RunUpdates DEF InFlight
  <2> QED
    BY <2>2, <2>3 DEF ExecTypeOK
<1>5. CASE /\ ~\E a \in Admitters : CreateRun(a) /\ runs[r] = None
           /\ ~\E a \in Admitters : job[a].run = r /\ Spawn(a)
  <2>1. runs[r] # None /\ runs[r].status \in InFlight
    <3>1. CASE \E a \in Admitters : CreateRun(a)
      BY <1>5, <3>1 DEF CreateRun, ExecTypeOK
    <3>2. CASE ~\E a \in Admitters : CreateRun(a)
      BY <3>2, OnlyInsertsAdd DEF Settles
    <3> QED
      BY <3>1, <3>2
  <2> QED
    BY <1>1, <1>4, <1>5, <2>1, OwnersStay DEF OwnedInv
<1> QED
  BY <1>2, <1>3, <1>5

-----------------------------------------------------------------------------
(* Auto-pause *)

\* Without users no cron is edited: counters change in watchers only.
NoDrafts == \A c \in Crons : draft[c] = NoDraft

\* A step that leaves enabled bits and counters alone and takes no watcher from its
\* check or its pause.
KeepsPause ==
  /\ \A c \in Crons : crons'[c] # None =>
       crons[c] # None /\ crons'[c].enabled = crons[c].enabled /\ crons'[c].failures = crons[c].failures
  /\ \A r \in Runs : watcher[r] \in {"check", "pause"} =>
       watcher'[r] \in {"check", "pause"} /\ watched'[r] = watched[r]

\* Such a step keeps a counter at the threshold answered.
LEMMA KeptPause == FailuresReachedMeansPaused /\ KeepsPause => FailuresReachedMeansPaused'
  BY DEF FailuresReachedMeansPaused, KeepsPause, WatchersAt

\* Where counting and pausing do not fail, so does every step of watchers and admissions.
LEMMA PauseStep ==
  ASSUME Faults \cap {"count", "pause"} = {}, ~UserEdits, TypeInv, NoDrafts,
         FailuresReachedMeansPaused, [ExecNext]_execVars, ~Restart
  PROVE  NoDrafts' /\ FailuresReachedMeansPaused'
<1> USE ExecutorAssumption DEF TypeInv, NoDrafts, tables, admit, watch, slots, life
<1>1. ASSUME NEW c \in Crons, ReceiveFire(c) \/ \E a \in Callers : RunNow(a, c)
      PROVE  NoDrafts' /\ KeepsPause
  BY <1>1 DEF ReceiveFire, RunNow, KeepsPause
<1>2. ASSUME NEW c \in Crons, SetEnabled(c) \/ BeginEdit(c) \/ Edit(c) \/ DeleteCron(c) PROVE FALSE
  BY <1>2 DEF SetEnabled, BeginEdit, Edit, DeleteCron
<1>3. ASSUME NEW r \in Runs, SessionEnds(r) \/ SessionRemoved(r) PROVE NoDrafts' /\ KeepsPause
  BY <1>3 DEF SessionEnds, SessionRemoved, KeepsPause
<1>4. CASE UNCHANGED execVars
  BY <1>4 DEF execVars, FailuresReachedMeansPaused, WatchersAt
<1>5. ASSUME NEW a \in Admitters, AdmitStep(a) PROVE NoDrafts' /\ KeepsPause
  <2>1. CASE MarkFired(a)
    <3>1. job[a].cron \in Crons
      BY <2>1 DEF MarkFired, JobInv
    <3>2. \A row \in Row : \A at : /\ Marked(row, at).enabled = row.enabled
                                   /\ Marked(row, at).failures = row.failures
      BY DEF Marked, Row
    <3> QED
      BY <2>1, <3>1, <3>2 DEF MarkFired, KeepsPause, ExecTypeOK
  <2>2. CASE Spawn(a)
    <3>1. job[a].run \in Runs /\ watcher[job[a].run] = "none"
      BY <2>2 DEF Spawn, JobInv
    <3> QED
      BY <2>2, <3>1 DEF Spawn, KeepsPause, ExecTypeOK
  <2>3. CASE ~MarkFired(a) /\ ~Spawn(a)
    BY <1>5, <2>3 DEF AdmitStep, Acquire, Gate, GateFails, Audit, BumpForCron, CreateRun,
                      CreateFails, SpawnFailed, Undo, UndoForCron, Leave, KeepsPause
  <2> QED
    BY <2>1, <2>2, <2>3
<1>6. ASSUME NEW r \in Runs, WatchStep(r) PROVE NoDrafts' /\ FailuresReachedMeansPaused'
  <2>0. NoDrafts'
    BY <1>6 DEF WatchStep, Observe, PollFails, TimeOut, Finish, BumpFailures, CheckPause, CountFails, Pause,
                ResetFailures, DropGlobal, DropForCron
  <2>1. CASE Observe(r) \/ PollFails(r) \/ TimeOut(r) \/ Finish(r) \/ DropGlobal(r) \/ DropForCron(r)
    BY <2>1, KeptPause DEF Observe, PollFails, TimeOut, Finish, DropGlobal, DropForCron, KeepsPause, ExecTypeOK
  <2>2. ~CountFails(r)
    BY DEF CountFails
  <2>3. CASE BumpFailures(r)
    <3>0. watched[r] \in Crons
      BY <2>3 DEF BumpFailures, WatchInv
    <3>1. CASE crons[watched[r]] = None
      BY <2>3, <3>1, KeptPause DEF BumpFailures, KeepsPause, ExecTypeOK
    <3>2. CASE crons[watched[r]] # None
      <4>1. /\ \A c \in Crons : c # watched[r] => crons'[c] = crons[c]
            /\ \A q \in Runs : q # r => watcher'[q] = watcher[q]
            /\ watcher'[r] = "check" /\ watched' = watched /\ watcher[r] = "bump"
        BY <2>3, <3>2 DEF BumpFailures, ExecTypeOK
      <4> QED
        BY <2>0, <4>1 DEF FailuresReachedMeansPaused, WatchersAt
    <3> QED
      BY <3>1, <3>2
  <2>4. CASE CheckPause(r)
    <3>1. /\ crons' = crons /\ watched' = watched
          /\ \A q \in Runs : q # r => watcher'[q] = watcher[q]
          /\ crons[watched[r]] # None /\ ShouldAutoPause(PauseAt, crons[watched[r]].failures) =>
               watcher'[r] = "pause"
      BY <2>4 DEF CheckPause, ExecTypeOK
    <3> QED
      BY <2>0, <3>1 DEF FailuresReachedMeansPaused, WatchersAt
  <2>5. CASE Pause(r)
    <3>0. watched[r] \in Crons
      BY <2>5 DEF Pause, WatchInv
    <3>1. /\ crons' = [crons EXCEPT ![watched[r]] = IF @ = None THEN None ELSE PausedRow(@)]
          /\ watched' = watched /\ \A q \in Runs : q # r => watcher'[q] = watcher[q]
      BY <2>5 DEF Pause, ExecTypeOK
    <3>2. \A row \in Row : ~(PausedRow(row).enabled
                             /\ ShouldAutoPause(PauseAt, PausedRow(row).failures))
      BY DEF PausedRow, Row
    <3>3. crons'[watched[r]] # None =>
            ~(crons'[watched[r]].enabled /\ ShouldAutoPause(PauseAt, crons'[watched[r]].failures))
      BY <3>0, <3>1, <3>2 DEF ExecTypeOK
    <3>4. \A c \in Crons : c # watched[r] => crons'[c] = crons[c]
      BY <3>1 DEF ExecTypeOK
    <3> QED
      BY <2>0, <3>1, <3>3, <3>4 DEF FailuresReachedMeansPaused, WatchersAt
  <2>6. CASE ResetFailures(r)
    <3>0. watched[r] \in Crons /\ watcher[r] = "reset"
      BY <2>6 DEF ResetFailures, WatchInv
    <3>1. /\ crons' = [crons EXCEPT ![watched[r]] = IF @ = None THEN None ELSE [@ EXCEPT !.failures = 0]]
          /\ watched' = watched /\ \A q \in Runs : q # r => watcher'[q] = watcher[q]
      BY <2>6 DEF ResetFailures, ExecTypeOK
    <3>2. \A row \in Row : ~ShouldAutoPause(PauseAt, [row EXCEPT !.failures = 0].failures)
      BY DEF ShouldAutoPause, Row
    <3>3. crons'[watched[r]] # None => ~ShouldAutoPause(PauseAt, crons'[watched[r]].failures)
      BY <3>0, <3>1, <3>2 DEF ExecTypeOK
    <3>4. \A c \in Crons : c # watched[r] => crons'[c] = crons[c]
      BY <3>1 DEF ExecTypeOK
    <3> QED
      BY <2>0, <3>0, <3>1, <3>3, <3>4 DEF FailuresReachedMeansPaused, WatchersAt
  <2> QED
    BY <1>6, <2>0, <2>1, <2>2, <2>3, <2>4, <2>5, <2>6 DEF WatchStep
<1> QED
  BY <1>1, <1>2, <1>3, <1>4, <1>5, <1>6, KeptPause DEF ExecNext

\* While the statements about results and counters do not fail, nobody edits a cron and
\* the daemon lives, the rows follow the runs for any number of watchers of a cron: rows
\* in flight are owned and a counter at the threshold means a pause, done or under way.
\* Each hypothesis is needed: a failed statement, a stale edit or a lost watcher leaves a
\* row or a counter behind.
THEOREM RowsFollow ==
  ASSUME Faults \cap {"finish", "count", "pause"} = {}, ~UserEdits, MaxRestarts = 0
  PROVE  ExecSpec => []RowsFollowRuns
<1> DEFINE Follow == OwnedInv /\ NoDrafts /\ FailuresReachedMeansPaused
<1>1. ExecInit => Follow
  BY ExecutorAssumption DEF ExecInit, OwnedInv, NoDrafts, FailuresReachedMeansPaused, NewRow,
                            ShouldAutoPause
<1>2. Inv => ~Restart
  BY DEF Inv, TypeInv, ExecTypeOK, Restart
<1>3. Inv /\ Follow /\ [ExecNext]_execVars => Follow'
  BY <1>2, OwnedStep, PauseStep DEF Inv
<1>4. Follow => InFlightRowsAreOwned /\ FailuresReachedMeansPaused
  BY DEF OwnedInv, InFlightRowsAreOwned
<1>5. InFlightRowsAreOwned /\ FailuresReachedMeansPaused /\ EndedRowsHaveEndedSessions
        => RowsFollowRuns
  BY DEF RowsFollowRuns
<1> HIDE DEF Follow
<1> QED
  BY <1>1, <1>3, <1>4, <1>5, Invariance, RowsEndWithSessions, PTL DEF ExecSpec

-----------------------------------------------------------------------------
(* Start and shutdown: SchedulerServices *)

\* Why no fire is lost: the executor is told to stop, and stops, only after the
\* heap loop has, and the heap loop does not start again.
ShutdownOrder ==
  /\ woken => loop = "stopped"
  /\ executor = "exited" => loop = "stopped" /\ fires = 0
  /\ lost = 0

TasksInv == ServicesTypeOK /\ ShutdownOrder

\* start begins in a state of the invariant.
LEMMA TasksInit == ServicesInit => TasksInv
<1> SUFFICES ASSUME ServicesInit PROVE TasksInv
  OBVIOUS
<1>1. FireCap \in Nat /\ MaxFires \in Nat
  BY ServicesAssumption
<1>2. woken \in BOOLEAN /\ flag \in BOOLEAN
  BY DEF ServicesInit
<1>3. fires \in 0..FireCap /\ emitted \in 0..MaxFires /\ unsent \in Nat /\ lost \in Nat
  BY <1>1 DEF ServicesInit
<1>4. ServicesTypeOK
  BY <1>2, <1>3 DEF ServicesInit, ServicesTypeOK
<1>5. ShutdownOrder
  BY DEF ServicesInit, ShutdownOrder
<1> QED
  BY <1>4, <1>5 DEF TasksInv

\* Every step of start, of the tasks and of shutdown keeps the types.
LEMMA ServicesTypeStep == ServicesTypeOK /\ [ServicesNext]_servicesVars => ServicesTypeOK'
<1> SUFFICES ASSUME ServicesTypeOK, [ServicesNext]_servicesVars PROVE ServicesTypeOK'
  OBVIOUS
<1> USE ServicesAssumption DEF ServicesTypeOK
<1>1. CASE SeedNext \/ Alive
  BY <1>1 DEF SeedNext, Alive
<1>2. CASE BeginInstall
  <2>1. PICK c \in unseeded : unseeded' = unseeded \ {c} /\ unsent' = Backlog[c]
    BY <1>2 DEF BeginInstall
  <2>2. c \in Seeds /\ Backlog[c] \in Nat
    BY <2>1
  <2> QED
    BY <1>2, <2>1, <2>2 DEF BeginInstall
<1>3. CASE BeginPass
  BY <1>3 DEF BeginPass
<1>4. CASE Send
  BY <1>4 DEF Send
<1>5. CASE EndPass \/ LoopStops
  BY <1>5 DEF EndPass, LoopStops
<1>6. CASE Receive \/ Processed \/ ChannelClosed \/ DrainFires
  BY <1>6 DEF Receive, Processed, ChannelClosed, DrainFires
<1>7. CASE Published \/ PublishAgain
  BY <1>7 DEF Published, PublishAgain
<1>8. CASE StopLoop \/ NotifyHealth \/ Down
  BY <1>8 DEF StopLoop, NotifyHealth, Down
<1>9. CASE NotifyExecutor
  BY <1>9 DEF NotifyExecutor
<1>10. CASE UNCHANGED servicesVars
  BY <1>10 DEF servicesVars
<1> QED
  BY <1>1, <1>2, <1>3, <1>4, <1>5, <1>6, <1>7, <1>8, <1>9, <1>10 DEF ServicesNext, Tasks

\* Every step keeps the order of the shutdown.
LEMMA OrderStep == TasksInv /\ [ServicesNext]_servicesVars => ShutdownOrder'
<1> SUFFICES ASSUME TasksInv, [ServicesNext]_servicesVars PROVE ShutdownOrder'
  OBVIOUS
<1> USE DEF TasksInv, ServicesTypeOK, ShutdownOrder
<1>1. CASE SeedNext \/ Alive
  BY <1>1 DEF SeedNext, Alive
<1>2. CASE BeginInstall \/ BeginPass
  BY <1>2 DEF BeginInstall, BeginPass
<1>3. CASE Send
  \* A loop that sends has not stopped, so the channel still has its receiver.
  <2>1. executor # "exited"
    BY <1>3 DEF Send
  <2> QED
    BY <1>3, <2>1 DEF Send
<1>4. CASE EndPass \/ LoopStops
  BY <1>4 DEF EndPass, LoopStops
<1>5. CASE Receive \/ Processed \/ ChannelClosed
  BY <1>5 DEF Receive, Processed, ChannelClosed
<1>6. CASE DrainFires
  BY <1>6 DEF DrainFires
<1>7. CASE Published \/ PublishAgain \/ StopLoop \/ NotifyHealth \/ Down
  BY <1>7 DEF Published, PublishAgain, StopLoop, NotifyHealth, Down
<1>8. CASE NotifyExecutor
  BY <1>8 DEF NotifyExecutor
<1>9. CASE UNCHANGED servicesVars
  BY <1>9 DEF servicesVars
<1> QED
  BY <1>1, <1>2, <1>3, <1>4, <1>5, <1>6, <1>7, <1>8, <1>9 DEF ServicesNext, Tasks

\* The variables of the scheduler stack keep their types, and the fire channel
\* its capacity.
THEOREM ServicesTypes == ServicesSpec => []ServicesTypeOK
<1>1. ServicesInit => ServicesTypeOK
  BY TasksInit DEF TasksInv
<1> QED
  BY <1>1, ServicesTypeStep, PTL DEF ServicesSpec

\* SchedulerServices::shutdown loses no fire, for any number of crons, any
\* backlog and any channel capacity.
THEOREM ShutdownLosesNoFire == ServicesSpec => []NoFireLostOnShutdown
<1>1. TasksInv /\ [ServicesNext]_servicesVars => TasksInv'
  BY ServicesTypeStep, OrderStep DEF TasksInv
<1>2. TasksInv => NoFireLostOnShutdown
  BY DEF TasksInv, ShutdownOrder, NoFireLostOnShutdown
<1> QED
  BY TasksInit, <1>1, <1>2, PTL DEF ServicesSpec
=============================================================================
