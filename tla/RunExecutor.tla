----------------------------- MODULE RunExecutor -----------------------------
(***************************************************************************)
(* How la-daemon turns fires into runs (la-daemon/src/scheduler.rs).  The   *)
(* executor task takes fires off the channel one by one; crons.run_now      *)
(* callers go through the same admission.  An admitter works under the      *)
(* admission lock: snapshot the counters, decide, reserve a slot, insert    *)
(* the runs row, spawn the session.  A watcher task per run polls the       *)
(* session, writes the terminal row, counts failures, pauses the cron and   *)
(* gives the slot back, without the lock.                                   *)
(*                                                                          *)
(* A step is what happens between two awaits that another task can tell     *)
(* apart.  SQLite statements may fail where Faults says so; the daemon may  *)
(* be restarted, which ends its tasks and keeps the database.               *)
(***************************************************************************)
EXTENDS Quota, FiniteSets

CONSTANTS
  None,         \* Option::None, SQL NULL
  Crons,        \* cron ids
  Runs,         \* run ids (bound: how many runs rows are ever written)
  Callers,      \* crons.run_now requests in progress at the same time
  Executor,     \* the executor task
  MaxConcurrent, MaxPerDay, PauseAt, Budget,   \* the quotas of every cron
  Faults,       \* SQLite calls that may fail: read, create, audit, mark, poll,
                \* finish, count, pause
  SpawnFails,   \* whether a spawn can fail (no adapter, no project, no process)
  Archives,     \* whether a user archives sessions that have ended
  UserEdits,    \* whether a user edits, toggles, deletes and recreates crons
  Crashes,      \* whether the daemon may die without its ordered shutdown
  MaxTicks,     \* bound: how many ticks of a cron are ever due
  MaxFailures,  \* bound on consecutive_failures
  MaxRestarts   \* bound on restarts of the daemon

ASSUME ExecutorAssumption ==
  /\ None \notin Crons /\ None \notin Runs
  /\ Executor \notin Callers /\ None \notin Callers \cup {Executor}
  /\ IsFiniteSet(Runs)
  /\ None \notin Nat
  /\ {MaxConcurrent, MaxPerDay, PauseAt, Budget} \subseteq Nat
  /\ {MaxTicks, MaxFailures, MaxRestarts} \subseteq Nat
  /\ {SpawnFails, Archives, UserEdits, Crashes} \subseteq BOOLEAN

Admitters == Callers \cup {Executor}

VARIABLES
  crons,      \* the crons table: [enabled, failures, mark] per id, None without a
              \* row; mark is last_fired_at
  runs,       \* the runs table: [cron, status, at] per id, None without a row; at is
              \* the tick the run is for, None for run_now
  session,    \* state of the session row a run spawned
  draft,      \* the row a crons.upsert in progress read first, NoDraft without one
  offered,    \* the last tick of each cron the scheduling loop handed out
  lock,       \* holder of admission_lock, None when free
  pc,         \* where each admitter is
  job,        \* what each admitter works on: [cron, at, row, run]
  watcher,    \* where the watcher of each run is
  verdict,    \* the terminal status each watcher decided on
  watched,    \* the cron each watcher was given, kept when the row loses it
  global,     \* running_global
  perCron,    \* running_per_cron
  restarts    \* how often the daemon was restarted

execVars == <<crons, runs, session, draft, offered, lock, pc, job, watcher, verdict, watched,
          global, perCron, restarts>>

tables  == <<crons, runs, session>>
admit   == <<lock, pc, job>>
watch   == <<watcher, verdict, watched>>
slots   == <<global, perCron>>
life    == <<draft, offered, restarts>>

\* A failed run whose error_kind is session_missing has the status "missing" here.
InFlight == {"spawning", "running"}
Failure  == {"failed", "missing", "timed_out"}
NoJob    == [cron |-> None, at |-> None, row |-> None, run |-> None]
NoDraft  == [state |-> "none"]
NewRow(enabled) == [enabled |-> enabled, failures |-> 0, mark |-> None]

RowsOf(c, statuses) ==
  {r \in Runs : runs[r] # None /\ runs[r].cron = c /\ runs[r].status \in statuses}

\* count_running_for_cron, count_since_for_cron (the model's horizon lies within
\* the 24 h window; audit rows are left out) and sum_cost_since_for_cron (every
\* writer stores cost_usd_est as NULL, which counts as nothing).
RunningFor(c)   == RowsOf(c, InFlight)
WindowFor(c)    == RowsOf(c, InFlight \cup Failure \cup {"completed"})
RecordedCost(c) == 0

-----------------------------------------------------------------------------
(* Admission: the executor's process_fire and run_now *)

\* The executor receives the next tick of a cron.
ReceiveFire(c) ==
  /\ pc[Executor] = "idle" /\ offered[c] < MaxTicks
  /\ offered' = [offered EXCEPT ![c] = @ + 1]
  /\ job' = [job EXCEPT ![Executor] = [NoJob EXCEPT !.cron = c, !.at = offered[c] + 1]]
  /\ pc' = [pc EXCEPT ![Executor] = "waiting"]
  /\ UNCHANGED <<tables, lock, watch, slots, draft, restarts>>

\* run_now reads the crons row before it has the lock.
RunNow(a, c) ==
  /\ pc[a] = "idle" /\ crons[c] # None
  /\ job' = [job EXCEPT ![a] = [NoJob EXCEPT !.cron = c, !.row = crons[c]]]
  /\ pc' = [pc EXCEPT ![a] = "waiting"]
  /\ UNCHANGED <<tables, lock, watch, slots, life>>

\* Take the admission lock; the executor reads the crons row under it and
\* ignores a fire whose cron is gone.
Acquire(a) ==
  /\ pc[a] = "waiting" /\ lock = None
  /\ IF a = Executor /\ crons[job[a].cron] = None
     THEN /\ pc' = [pc EXCEPT ![a] = "idle"]
          /\ job' = [job EXCEPT ![a] = NoJob]
          /\ UNCHANGED lock
     ELSE /\ lock' = a
          /\ pc' = [pc EXCEPT ![a] = "gate"]
          /\ job' = [job EXCEPT ![a].row = IF a = Executor THEN crons[job[a].cron] ELSE @]
  /\ UNCHANGED <<tables, watch, slots, life>>

\* build_snapshot and cron_to_quota: backoff and load are what the host says.
Snapshot(c, backoff, load) ==
  [backoff |-> backoff /\ \E r \in Runs : runs[r] # None /\ runs[r].cron = c
                                          /\ runs[r].status \in Failure,
   load |-> load, global |-> global,
   forCron |-> Cardinality(RunningFor(c)), window |-> Cardinality(WindowFor(c)),
   cost |-> RecordedCost(c)]

QuotaOf(row) ==
  [enabled |-> row.enabled, failures |-> row.failures,
   maxConcurrent |-> MaxConcurrent, maxPerDay |-> MaxPerDay, budget |-> Budget]

\* Where an admitter goes once the outcome of its fire is settled: only a
\* scheduled fire moves the watermark.
Settled(a) == IF a = Executor THEN "mark" ELSE "leaving"

\* evaluate_admission, and on admission step 1: reserve the global slot.  A
\* deferral is only logged, every other refusal gets an audit row.
Gate(a) ==
  /\ pc[a] = "gate"
  /\ \E backoff, load \in BOOLEAN :
       LET c == job[a].cron
           decision == EvaluateAdmission(QuotaOf(job[a].row), Snapshot(c, backoff, load))
       IN  \/ /\ decision = "admit"
              /\ pc' = [pc EXCEPT ![a] = "reserved"] /\ global' = global + 1
           \/ /\ decision \in Deferrals
              /\ pc' = [pc EXCEPT ![a] = Settled(a)] /\ UNCHANGED global
           \/ /\ decision \notin Deferrals \cup {"admit"}
              /\ pc' = [pc EXCEPT ![a] = "audit"] /\ UNCHANGED global
  /\ UNCHANGED <<tables, lock, job, watch, perCron, life>>

\* A failed read of the crons row or of a counter: the fire is ignored.
GateFails(a) ==
  /\ pc[a] = "gate" /\ "read" \in Faults
  /\ pc' = [pc EXCEPT ![a] = "leaving"]
  /\ UNCHANGED <<tables, lock, job, watch, slots, life>>

\* write_rejected_audit; a failed insert is only logged.
Audit(a) ==
  /\ pc[a] = "audit"
  /\ \/ /\ crons[job[a].cron] # None
        /\ \E r \in Runs :
             /\ runs[r] = None
             /\ runs' = [runs EXCEPT ![r] =
                  [cron |-> job[a].cron, status |-> "rejected", at |-> job[a].at]]
     \/ /\ \/ crons[job[a].cron] = None
           \/ "audit" \in Faults
           \/ \A r \in Runs : runs[r] # None
        /\ UNCHANGED runs
  /\ pc' = [pc EXCEPT ![a] = Settled(a)]
  /\ UNCHANGED <<crons, session, lock, job, watch, slots, life>>

\* bump_running_for_cron
BumpForCron(a) ==
  /\ pc[a] = "reserved"
  /\ perCron' = [perCron EXCEPT ![job[a].cron] = @ + 1]
  /\ pc' = [pc EXCEPT ![a] = "counted"]
  /\ UNCHANGED <<tables, lock, job, watch, global, life>>

\* Step 2: insert the runs row; the foreign key needs the crons row.
CreateRun(a) ==
  /\ pc[a] = "counted" /\ crons[job[a].cron] # None
  /\ \E r \in Runs :
       /\ runs[r] = None
       /\ runs' = [runs EXCEPT ![r] = [cron |-> job[a].cron, status |-> "spawning",
                                      at |-> job[a].at]]
       /\ job' = [job EXCEPT ![a].run = r]
  /\ pc' = [pc EXCEPT ![a] = "created"]
  /\ UNCHANGED <<crons, session, lock, watch, slots, life>>

\* The insert fails: give the slot back.
CreateFails(a) ==
  /\ pc[a] = "counted"
  /\ \/ crons[job[a].cron] = None
     \/ "create" \in Faults
     \/ \A r \in Runs : runs[r] # None
  /\ pc' = [pc EXCEPT ![a] = "undo"]
  /\ UNCHANGED <<tables, lock, job, watch, slots, life>>

\* Steps 5 to 8: the session runs, the row says so, a watcher is started.
Spawn(a) ==
  /\ pc[a] = "created"
  /\ LET r == job[a].run IN
       /\ session' = [session EXCEPT ![r] = "live"]
       /\ runs' = [runs EXCEPT ![r].status = "running"]
       /\ watcher' = [watcher EXCEPT ![r] = "polling"]
       /\ watched' = [watched EXCEPT ![r] = job[a].cron]
  /\ pc' = [pc EXCEPT ![a] = Settled(a)]
  /\ UNCHANGED <<crons, lock, job, verdict, slots, life>>

\* Steps 3 to 5 fail: finish_run_with_error, then give the slot back.
SpawnFailed(a) ==
  /\ pc[a] = "created" /\ SpawnFails
  /\ \/ runs' = [runs EXCEPT ![job[a].run].status = "failed"]
     \/ "finish" \in Faults /\ UNCHANGED runs
  /\ pc' = [pc EXCEPT ![a] = "undo"]
  /\ UNCHANGED <<crons, session, lock, job, watch, slots, life>>

Less(n) == IF n = 0 THEN 0 ELSE n - 1

\* Mutant: the rollback forgets the global counter.
MutUndo(a) ==
  /\ pc[a] = "undo"
  /\ pc' = [pc EXCEPT ![a] = "undo_cron"]
  /\ UNCHANGED <<tables, lock, job, watch, slots, life>>

\* decrement_global_and_cron, first half
Undo(a) ==
  /\ pc[a] = "undo"
  /\ global' = Less(global)
  /\ pc' = [pc EXCEPT ![a] = "undo_cron"]
  /\ UNCHANGED <<tables, lock, job, watch, perCron, life>>

\* decrement_global_and_cron, second half
UndoForCron(a) ==
  /\ pc[a] = "undo_cron"
  /\ perCron' = [perCron EXCEPT ![job[a].cron] = Less(@)]
  /\ pc' = [pc EXCEPT ![a] = Settled(a)]
  /\ UNCHANGED <<tables, lock, job, watch, global, life>>

\* mark_fired keeps the later of the two watermarks.
Marked(row, at) ==
  IF row.mark = None \/ row.mark < at THEN [row EXCEPT !.mark = at] ELSE row

\* persist_fire_watermark; its failure is ignored.
MarkFired(a) ==
  /\ pc[a] = "mark"
  /\ LET c == job[a].cron IN
     \/ crons' = [crons EXCEPT ![c] = IF @ = None THEN None ELSE Marked(@, job[a].at)]
     \/ "mark" \in Faults /\ UNCHANGED crons
  /\ pc' = [pc EXCEPT ![a] = "leaving"]
  /\ UNCHANGED <<runs, session, lock, job, watch, slots, life>>

\* Mutant: the admission lock stays taken.
MutLeave(a) ==
  /\ pc[a] = "leaving"
  /\ pc' = [pc EXCEPT ![a] = "idle"]
  /\ job' = [job EXCEPT ![a] = NoJob]
  /\ UNCHANGED <<tables, lock, watch, slots, life>>

\* The admission guard is dropped.
Leave(a) ==
  /\ pc[a] = "leaving"
  /\ lock' = None
  /\ pc' = [pc EXCEPT ![a] = "idle"]
  /\ job' = [job EXCEPT ![a] = NoJob]
  /\ UNCHANGED <<tables, watch, slots, life>>

-----------------------------------------------------------------------------
(* spawn_run_watcher *)

\* Exit code 0 completes a run, anything else, a vanished row included, fails it.
VerdictOf(state) ==
  CASE state = "exited_ok" -> "completed"
    [] state = "gone" -> "missing"
    [] OTHER -> "failed"

\* A poll sees the end of the session.  An archived one is not taken for ended.
Observe(r) ==
  /\ watcher[r] = "polling"
  /\ session[r] \in {"exited_ok", "exited_bad", "gone"}
  /\ verdict' = [verdict EXCEPT ![r] = VerdictOf(session[r])]
  /\ watcher' = [watcher EXCEPT ![r] = "finishing"]
  /\ UNCHANGED <<tables, admit, watched, slots, life>>

\* A poll fails.  The watcher takes the session for vanished, whatever its state:
\* an error of sessions().get is handled like a missing row.
PollFails(r) ==
  /\ watcher[r] = "polling" /\ "poll" \in Faults
  /\ verdict' = [verdict EXCEPT ![r] = "missing"]
  /\ watcher' = [watcher EXCEPT ![r] = "finishing"]
  /\ UNCHANGED <<tables, admit, watched, slots, life>>

\* max_runtime_s is over: SIGTERM, and the run counts as timed out at once.
TimeOut(r) ==
  /\ watcher[r] = "polling"
  /\ session[r] \in {"live", "archived"}
  /\ verdict' = [verdict EXCEPT ![r] = "timed_out"]
  /\ watcher' = [watcher EXCEPT ![r] = "finishing"]
  /\ UNCHANGED <<tables, admit, watched, slots, life>>

\* Mutant: the row of a run that completed is left as it was.
MutFinish(r) ==
  /\ watcher[r] = "finishing"
  /\ runs' = IF verdict[r] = "completed" THEN runs
             ELSE [runs EXCEPT ![r].status = verdict[r]]
  /\ watcher' = [watcher EXCEPT ![r] = IF verdict[r] \in Failure THEN "bump" ELSE "reset"]
  /\ UNCHANGED <<crons, session, admit, verdict, watched, slots, life>>

\* RunsRepo::finish; its failure is only logged.
Finish(r) ==
  /\ watcher[r] = "finishing"
  /\ \/ runs' = [runs EXCEPT ![r].status = verdict[r]]
     \/ "finish" \in Faults /\ UNCHANGED runs
  /\ watcher' = [watcher EXCEPT ![r] = IF verdict[r] \in Failure THEN "bump" ELSE "reset"]
  /\ UNCHANGED <<crons, session, admit, verdict, watched, slots, life>>

\* bump_consecutive_failures, the UPDATE.  Without a row there is nothing to
\* count.
BumpFailures(r) ==
  /\ watcher[r] = "bump"
  /\ LET c == watched[r] IN
     IF crons[c] = None
     THEN watcher' = [watcher EXCEPT ![r] = "drop_global"] /\ UNCHANGED crons
     ELSE /\ crons[c].failures < MaxFailures
          /\ crons' = [crons EXCEPT ![c].failures = @ + 1]
          /\ watcher' = [watcher EXCEPT ![r] = "check"]
  /\ UNCHANGED <<runs, session, admit, verdict, watched, slots, life>>

\* bump_consecutive_failures, the SELECT, and should_auto_pause on its result.
\* (The backoff mirror sent to the scheduling loop is SchedulerLoop's
\* UpdateBackoff.)
CheckPause(r) ==
  /\ watcher[r] = "check"
  /\ LET row == crons[watched[r]] IN
     watcher' = [watcher EXCEPT ![r] =
       IF row # None /\ ShouldAutoPause(PauseAt, row.failures) THEN "pause" ELSE "drop_global"]
  /\ UNCHANGED <<tables, admit, verdict, watched, slots, life>>

\* The count or the read-back fails: no pause.
CountFails(r) ==
  /\ watcher[r] \in {"bump", "check"} /\ "count" \in Faults
  /\ watcher' = [watcher EXCEPT ![r] = "drop_global"]
  /\ UNCHANGED <<tables, admit, verdict, watched, slots, life>>

\* What pause_for_failures leaves of the row: the threshold is checked again
\* inside the UPDATE.
PausedRow(row) ==
  IF ShouldAutoPause(PauseAt, row.failures) THEN [row EXCEPT !.enabled = FALSE] ELSE row

\* pause_for_failures
Pause(r) ==
  /\ watcher[r] = "pause"
  /\ LET c == watched[r] IN
     \/ crons' = [crons EXCEPT ![c] = IF @ = None THEN None ELSE PausedRow(@)]
     \/ "pause" \in Faults /\ UNCHANGED crons
  /\ watcher' = [watcher EXCEPT ![r] = "drop_global"]
  /\ UNCHANGED <<runs, session, admit, verdict, watched, slots, life>>

\* reset_consecutive_failures
ResetFailures(r) ==
  /\ watcher[r] = "reset"
  /\ LET c == watched[r] IN
     \/ crons' = [crons EXCEPT ![c] = IF @ = None THEN None ELSE [@ EXCEPT !.failures = 0]]
     \/ "count" \in Faults /\ UNCHANGED crons
  /\ watcher' = [watcher EXCEPT ![r] = "drop_global"]
  /\ UNCHANGED <<runs, session, admit, verdict, watched, slots, life>>

\* decrement_global_owned
DropGlobal(r) ==
  /\ watcher[r] = "drop_global"
  /\ global' = Less(global)
  /\ watcher' = [watcher EXCEPT ![r] = "drop_cron"]
  /\ UNCHANGED <<tables, admit, verdict, watched, perCron, life>>

\* decrement_for_cron; the watcher task ends.
DropForCron(r) ==
  /\ watcher[r] = "drop_cron"
  /\ perCron' = [perCron EXCEPT ![watched[r]] = Less(@)]
  /\ watcher' = [watcher EXCEPT ![r] = "none"]
  /\ verdict' = [verdict EXCEPT ![r] = None] /\ watched' = [watched EXCEPT ![r] = None]
  /\ UNCHANGED <<tables, admit, global, life>>

-----------------------------------------------------------------------------
(* Sessions, users and the daemon's life *)

\* The child ends, by itself or on a signal; the output pump writes the row.
SessionEnds(r) ==
  /\ session[r] = "live"
  /\ \E s \in {"exited_ok", "exited_bad"} : session' = [session EXCEPT ![r] = s]
  /\ UNCHANGED <<crons, runs, admit, watch, slots, life>>

\* sessions.archive and sessions.delete, which need an ended session.
SessionRemoved(r) ==
  /\ Archives
  /\ session[r] \in {"exited_ok", "exited_bad"}
  /\ \E s \in {"archived", "gone"} : session' = [session EXCEPT ![r] = s]
  /\ UNCHANGED <<crons, runs, admit, watch, slots, life>>

\* What the scheduling loop hands out next when a cron is installed again: every
\* tick after the watermark it is given.
Reoffered(c) ==
  IF crons[c] = None \/ crons[c].mark = None THEN offered[c] ELSE crons[c].mark

\* crons.set_enabled; enabling installs the cron with its last_fired_at.
SetEnabled(c) ==
  /\ UserEdits /\ crons[c] # None
  /\ crons' = [crons EXCEPT ![c].enabled = ~@]
  /\ offered' = IF crons[c].enabled THEN offered
                ELSE [offered EXCEPT ![c] = Reoffered(c)]
  /\ UNCHANGED <<runs, session, admit, watch, slots, draft, restarts>>

\* crons.delete: runs.cron_id is ON DELETE SET NULL.
DeleteCron(c) ==
  /\ UserEdits /\ crons[c] # None
  /\ crons' = [crons EXCEPT ![c] = None]
  /\ runs' = [r \in Runs |-> IF runs[r] # None /\ runs[r].cron = c
                             THEN [runs[r] EXCEPT !.cron = None] ELSE runs[r]]
  /\ UNCHANGED <<session, admit, watch, slots, life>>

\* crons.upsert reads the row before it queues for the control lock.
BeginEdit(c) ==
  /\ UserEdits /\ draft[c] = NoDraft
  /\ draft' = [draft EXCEPT ![c] =
       [state |-> "read", row |-> IF crons[c] = None THEN NewRow(FALSE) ELSE crons[c]]]
  /\ UNCHANGED <<tables, admit, watch, slots, offered, restarts>>

\* CronControl::upsert: a new or a sensitively changed cron is disabled, another
\* one keeps the bit it has now; counter and watermark are the ones read before.
\* An enabled cron is installed again with that watermark.
Edit(c) ==
  /\ draft[c] # NoDraft
  /\ LET old == draft[c].row IN
     \E enabled \in {FALSE, crons[c] # None /\ crons[c].enabled} :
       /\ crons' = [crons EXCEPT ![c] = [old EXCEPT !.enabled = enabled]]
       /\ offered' = [offered EXCEPT ![c] = IF enabled /\ old.mark # None THEN old.mark ELSE @]
  /\ draft' = [draft EXCEPT ![c] = NoDraft]
  /\ UNCHANGED <<runs, session, admit, watch, slots, restarts>>

\* The daemon stops and is started again.  Its tasks, locks and counters are
\* gone, the children of its sessions are hung up and reaped as exited without
\* a code, the other tables stay as they are, and the crons are installed from
\* their watermarks.  An ordered shutdown waits for the executor.
Restart ==
  /\ restarts < MaxRestarts
  /\ Crashes \/ pc[Executor] = "idle"
  /\ restarts' = restarts + 1
  /\ lock' = None
  /\ pc' = [a \in Admitters |-> "idle"] /\ job' = [a \in Admitters |-> NoJob]
  /\ watcher' = [r \in Runs |-> "none"]
  /\ verdict' = [r \in Runs |-> None] /\ watched' = [r \in Runs |-> None]
  /\ session' = [r \in Runs |-> IF session[r] = "live" THEN "exited_bad" ELSE session[r]]
  /\ global' = 0 /\ perCron' = [c \in Crons |-> 0]
  /\ draft' = [c \in Crons |-> NoDraft]
  /\ offered' = [c \in Crons |-> Reoffered(c)]
  /\ UNCHANGED <<crons, runs>>

-----------------------------------------------------------------------------
ExecInit ==
  /\ crons = [c \in Crons |-> NewRow(TRUE)]
  /\ runs = [r \in Runs |-> None] /\ session = [r \in Runs |-> "none"]
  /\ draft = [c \in Crons |-> NoDraft] /\ offered = [c \in Crons |-> 0]
  /\ lock = None
  /\ pc = [a \in Admitters |-> "idle"] /\ job = [a \in Admitters |-> NoJob]
  /\ watcher = [r \in Runs |-> "none"] /\ verdict = [r \in Runs |-> None]
  /\ watched = [r \in Runs |-> None]
  /\ global = 0 /\ perCron = [c \in Crons |-> 0]
  /\ restarts = 0

AdmitStep(a) ==
  \/ Acquire(a) \/ Gate(a) \/ GateFails(a) \/ Audit(a) \/ BumpForCron(a)
  \/ CreateRun(a) \/ CreateFails(a) \/ Spawn(a) \/ SpawnFailed(a)
  \/ Undo(a) \/ UndoForCron(a) \/ MarkFired(a) \/ Leave(a)

WatchStep(r) ==
  \/ Observe(r) \/ PollFails(r) \/ TimeOut(r) \/ Finish(r) \/ BumpFailures(r) \/ CheckPause(r)
  \/ CountFails(r) \/ Pause(r) \/ ResetFailures(r) \/ DropGlobal(r) \/ DropForCron(r)

ExecNext ==
  \/ \E c \in Crons : ReceiveFire(c) \/ \E a \in Callers : RunNow(a, c)
  \/ \E a \in Admitters : AdmitStep(a)
  \/ \E r \in Runs : WatchStep(r) \/ SessionEnds(r) \/ SessionRemoved(r)
  \/ \E c \in Crons : SetEnabled(c) \/ BeginEdit(c) \/ Edit(c) \/ DeleteCron(c)
  \/ Restart

\* Every task is polled again, the lock is fair, and a run's clock runs out:
\* max_runtime_s > 0 (with 0 a watcher has no deadline).
ExecFairness ==
  /\ \A a \in Admitters : SF_execVars(Acquire(a)) /\ WF_execVars(AdmitStep(a))
  /\ \A r \in Runs : WF_execVars(WatchStep(r))

ExecSpec == ExecInit /\ [][ExecNext]_execVars
ExecFairSpec == ExecSpec /\ ExecFairness

-----------------------------------------------------------------------------
(* Properties *)

Row == [enabled : BOOLEAN, failures : Nat, mark : Nat \cup {None}]

Run == [cron : Crons \cup {None}, at : Nat \cup {None},
        status : InFlight \cup Failure \cup {"completed", "rejected"}]

\* Option::None is no row.
ASSUME NoRowAssumption == None \notin Run

Job == [cron : Crons \cup {None}, at : Nat \cup {None},
        row : Row \cup {None}, run : Runs \cup {None}]

\* Every variable has its type.
ExecTypeOK ==
  /\ crons \in [Crons -> Row \cup {None}]
  /\ runs \in [Runs -> Run \cup {None}]
  /\ session \in [Runs -> {"none", "live", "exited_ok", "exited_bad", "archived", "gone"}]
  /\ draft \in [Crons -> {NoDraft} \cup [state : {"read"}, row : Row]]
  /\ offered \in [Crons -> Nat]
  /\ lock \in Admitters \cup {None}
  /\ pc \in [Admitters -> {"idle", "waiting", "gate", "audit", "reserved", "counted",
                          "created", "undo", "undo_cron", "mark", "leaving"}]
  /\ job \in [Admitters -> Job]
  /\ watcher \in [Runs -> {"none", "polling", "finishing", "bump", "check", "pause",
                          "reset", "drop_global", "drop_cron"}]
  /\ verdict \in [Runs -> Failure \cup {"completed", None}]
  /\ watched \in [Runs -> Crons \cup {None}]
  /\ global \in Nat /\ perCron \in [Crons -> Nat]
  /\ restarts \in Nat

\* max_concurrent_runs: scheduled fires and run_now callers together never have
\* more runs of a cron in flight than its quota, because snapshot, decision and
\* insert share the admission lock.
PerCronCap == \A c \in Crons : Cardinality(RunningFor(c)) <= MaxConcurrent

\* global_max_concurrent_runs: the reserved slots never exceed the ceiling, a
\* slot being reserved before the runs row exists and released without the lock.
GlobalCap == GlobalMax > 0 => global <= GlobalMax

AdmittersAt(places) == {a \in Admitters : pc[a] \in places}
WatchersAt(places)  == {r \in Runs : watcher[r] \in places}
Holding == {"polling", "finishing", "bump", "check", "pause", "reset", "drop_global"}

\* Every reserved slot belongs to one admission in progress or one live watcher,
\* on every rollback and failure path: the counters neither leak nor go below
\* what is running (decrement_global_and_cron, decrement_for_cron).
SlotsMatchHolders ==
  /\ global = Cardinality(AdmittersAt({"reserved", "counted", "created", "undo"}))
               + Cardinality(WatchersAt(Holding))
  /\ \A c \in Crons :
       perCron[c] =
         Cardinality({a \in AdmittersAt({"counted", "created", "undo", "undo_cron"}) :
                        job[a].cron = c})
         + Cardinality({r \in WatchersAt(Holding \cup {"drop_cron"}) : watched[r] = c})

\* A row that counts as in flight has someone who will finish it: the admission
\* that inserted it or the watcher of its session.
InFlightRowsAreOwned ==
  \A r \in Runs : runs[r] # None /\ runs[r].status \in InFlight =>
    \/ \E a \in Admitters : job[a].run = r
    \/ watcher[r] \in {"polling", "finishing"}

\* What a watcher may write of a live session: that it was timed out, or, where a
\* poll can fail, that it is missing.
LiveVerdicts == {v \in {"timed_out", "missing"} : v = "missing" => "poll" \in Faults}

\* A session that outlives its runs row was timed out, or a poll of it failed and
\* the row calls it missing: no row says of a live session that it completed or
\* exited (spawn_run_watcher).
EndedRowsHaveEndedSessions ==
  \A r \in Runs : session[r] = "live" /\ runs[r].status \notin InFlight =>
    runs[r].status \in LiveVerdicts

\* A cron whose failure counter has reached the threshold is paused, or a watcher
\* is on its way to pause it, whatever other watchers count or reset in between
\* (bump_consecutive_failures, should_auto_pause, pause_for_failures).
FailuresReachedMeansPaused ==
  \A c \in Crons :
    crons[c] # None /\ crons[c].enabled /\ ShouldAutoPause(PauseAt, crons[c].failures) =>
      \E r \in WatchersAt({"check", "pause"}) : watched[r] = c

\* The rows follow the runs, with several watchers at work on one cron: as long as the
\* daemon is not restarted, nobody edits the cron and the statements that finish a row, count a failure and
\* pause a cron succeed (a row or a pause they fail at is never made up for).
RowsFollowRuns == FailuresReachedMeansPaused /\ InFlightRowsAreOwned /\ EndedRowsHaveEndedSessions

\* Every admission comes to an end and hands the lock on.
AdmissionsEnd == \A a \in Admitters : pc[a] # "idle" ~> pc[a] = "idle"

\* Every run that was started is finished, also when its session is archived
\* before the watcher's next poll.
RunsFinish ==
  \A r \in Runs : (runs[r] # None /\ runs[r].status \in InFlight)
                  ~> (runs[r] # None /\ runs[r].status \notin InFlight)

\* Neither an admission nor a run stays for ever, whichever read, insert, poll or spawn
\* fails on the way.  (A run whose row cannot be finished stays in flight: the watcher
\* logs the error and ends.)
ExecutionEnds == AdmissionsEnd /\ RunsFinish

=============================================================================
