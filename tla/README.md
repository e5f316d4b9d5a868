# LazyAgents, specified

LazyAgents runs coding agents in pseudo-terminals behind a daemon (`lad`) that
terminal UIs (`la`) attach to, and runs them on cron schedules. This directory
holds TLA+ models of its scheduler, its daemon, its IPC and its terminal UI, the
TLC configurations that check them on small instances, and TLAPS proofs of the
properties that matter most. `PROJECT.json` maps every definition to the lines it
models.

## The system

| Component | State | Operations | Talks to |
|---|---|---|---|
| Scheduling loop, entry table (`la-scheduler`) | entries, heap of versioned nodes, sleep deadline, skew anchor | `upsert`, `delete`, `update_backoff_state`, `poke`, `shutdown`; wake, firing pass, skew pass | bounded fire channel to the executor |
| Schedules, catch-up, backoff, quota gate (`la-scheduler`) | none | `next_after`, `apply_catchup_with_total`, `next_eligible_fire`, `evaluate_admission` | called by loop and executor |
| Run executor (`la-daemon/scheduler.rs`) | admission lock, two slot counters, a watcher per run | `process_fire`, `run_now`, `admit_and_spawn`, `spawn_run_watcher` | crons and runs tables, session manager, loop |
| Scheduler services (same file) | three tasks and their signals | `start`, `shutdown` | joins and notifications |
| Cron control (`cron_control.rs`, `cron_security.rs`) | control lock, confirmation tokens | `upsert`, `set_enabled`, `delete`, `require_or_confirm` | crons table, loop |
| Session manager, worktrees (`la-core`) | registry, output pumps, writer of each session; git worktrees and branches | spawn, import, attach, detach, write, archive, delete, reap, sweep | PTY, hub, git, sessions table |
| Diff engine (`la-core/worktree/diff.rs`) | lock per worktree | status, diff, stage, unstage, discard, commit | git index and tree, which the agent edits too |
| Output hub (`la-ipc/hub.rs`) | ring, subscriber queues and budgets, parked subscriptions | publish, subscribe, resume, recv, ack, drop, evict, close | sessions, connections |
| IPC connection (`la-ipc`) | framed stream, send half behind a lock | encode, decode, handshake | both ends of a socket |
| Dispatcher (`dispatcher.rs`) | per connection: reader, writer task, attachment, topics | JSON-RPC handlers | everything |
| Event bus, backend health (`la-core`, `health.rs`) | broadcast ring, registry of backends | publish, subscribe, probe, pulse, snapshot | writer tasks |
| Daemon runtime (`runtime.rs`, `lad.rs`, `daemonize.rs`) | socket file, accept loop, phases of the shutdown | bind, serve, stop, spawn | clients, service managers |
| Storage (`la-storage`) | SQLite, spill files of transcripts, archive of runs | repositories, `append_chunk`, `archive_older_than_days` | disk |
| Installers (`install/`) | unit file or task, enabled and running state of the service manager | `install`, `uninstall` as sequences of verbs | systemd, launchd, Task Scheduler |
| Configuration (`la-config`, `config_cmd.rs`, `ui_prefs.rs`) | files of the lookup chain | `config show`, `config check`, start, the UI's save | one file, three readers, two writers |
| Terminal UI (`la-tui`) | source thread and cache, sidebar, dialogs, attach pump, pane, crons tab, picker, status dot | keys, refreshes, reconnects, events | daemon over IPC |
| Protocol types, adapters, PTY, observability, doctor, composer | | | not modelled, see below |

What is hard here:

* The loop blocks in the middle of a pass when the fire channel is full, and the
  clock goes on. Its heap is cleaned lazily, by version numbers.
* A run is admitted by one task, watched by another and counted in SQLite rows
  and in memory; each of some ten steps can fail. The watcher takes none of the
  locks of the request handlers.
* Boot and shutdown order tasks that wait for each other, some through
  `Notify::notify_waiters`, which reaches only who is parked.
* An agent's command line may run only after a user was shown it and confirmed,
  over two requests with any edits in between.
* A subscriber may be slow, park, resume on another connection, and still must be
  told of everything it missed. The client reconnects while the daemon still
  serves the connection it has lost.
* Creating a session is five steps in git, SQLite, the kernel and memory, with a
  rollback for each prefix and a crash between any two.
* A reviewer stages hunks of a tree the agent is editing.
* The socket file is probed, unlinked, bound and removed in separate system calls
  by processes that know nothing of each other.
* The UI acts on a snapshot that a thread replaces, and keeps dialogs open while
  the daemon changes what they are about.

`hazards` in `PROJECT.json` lists where these could go wrong, line by line, with
the properties that would notice.

## Modules

| Module | Models |
|---|---|
| `Catchup`, `Quota` | schedules (a set of instants), catch-up policies, backoff; the quota rails: operators |
| `CatchupPasses` | gaps resolved in successive passes, against a declarative reading of the gap |
| `EntryTable`, `SchedulerLoop` | the heap as operators on a map and a bag; the loop, its channel, both clocks |
| `RunExecutor` | executor, `run_now`, admission, watchers, tables, restarts |
| `SchedulerServices` | who waits for whom in `start` and `shutdown` |
| `CronControl` | `crons.*` requests, tokens, the watcher beside them |
| `OutputStream` | what the hub promises a reader, and nothing of how |
| `OutputHub` | `hub.rs`; implements `OutputStream` |
| `AttachStream` | composition: PTY pump, `OutputHub`, the reader and writer tasks of two connections, the wire, the client's attach pump |
| `Wire` | frames over a stream cut anywhere, the shared send half, the handshake |
| `SessionLifecycle` | create, import, archive, delete, reap and sweep with rows, worktrees, branches and children |
| `DiffReview` | reviewers and the agent on one worktree |
| `EventBus` | probes, registry, broadcast ring, writer, `events.subscribe` |
| `DaemonStart`, `DaemonStop` | the socket between racing starts and clients; one daemon from its accept loop to its exit |
| `StorageFiles` | the runs archive and the transcript spill beside SQLite |
| `ServiceInstall` | the verbs on three service managers |
| `ConfigFiles` | the lookup chain, its readers, the UI's save and theme picker, the user's editor |
| `RpcSource`, `TuiSidebar`, `TuiAttach`, `NotifSub`, `CronsTab` | the UI |
| `MC*` | instances for TLC |
| `*_proofs` | theorems and their proofs |

How state and actions correspond to the code:

* What a task does between two awaits is one action; every await is a program
  point. A task's place is a `pc`, `at`, `phase` or `stage` with the name of the
  step it is at. Every early return and every `?` is an alternative.
* **SchedulerLoop.** The awaits are the `select!` and every send. `task.now` is
  the clock reading a pass works with; `wall` goes on. `since` and `handled` are
  history.
* **RunExecutor.** An admitter holds `lock` from the row read to the end of its
  fire; its `pc` names the step of `admit_and_spawn`. The two counters have a
  mutex each and move in two steps. `Faults` says which SQLite calls may fail.
  The counters of a snapshot are read in one step: watchers can only lower them
  meanwhile, which can only turn an admission into a refusal.
* **CronControl.** The eight sensitive fields are one value, `content`, which
  stands for its own fingerprint. `approved` and `redeemed` are history.
* **OutputHub.** A chunk is its number and its length. A handle is one
  `Subscription`; `seen` is the last number its reader was told of, the state of
  the abstract stream.
* **AttachStream.** `reader[c]` and `writer[c]` are the two tasks of a
  connection; `drain` is the subscription its drain task owns, `hand` what that
  task has received (and acknowledged) and not sent. An attach takes the input,
  reads the snapshot and records the subscription in three steps, as no lock covers
  them; a detach removes the record and releases the input in two. `pump`,
  `attempt`, `lastSeq` and `stash` are the locals of `attach_pump.rs`; `asked` is
  the cursor of the attempt's request.
* **SessionLifecycle.** A git command may fail before or after its effect. A
  branch is at its base or ahead; `CommittedWorkKept` is about the second. `orphans`
  are the children a crash of the daemon left running.
* **StorageFiles.** A new file is on the disk once its directory is synced. The
  archive's is; the spill file's never is (`repos.rs:1620`), so its entry,
  `entered`, waits for the kernel, and `taken` are the chunks lost with it.
* **DiffReview.** A spot of a file has a text in HEAD, index and tree; a hunk id
  is its file, its text before and after, and the line numbers of its header.
* **DaemonStart.** The inode of a socket is the process that bound it.
  `before[p]` and `remover[p]` are history.
* **Wire.** A byte is a message and its position in the frame.
* **ConfigFiles.** A file is missing, unreadable, malformed, or a value per section.
  A save takes a read error for an empty file (`ui_prefs.rs:200`); `blind` marks it.

Faults that are modelled: crash and restart of the daemon, power cuts (what was
not synced is gone), lost connections and half-done requests, failing SQLite, git
and service-manager commands, commands that are killed after they acted,
notifications that find nobody waiting, receivers that lag, children that ignore
SIGTERM, clocks that jump forward.

## Runs

Several runs check components that share no variable. A variable `part` then
says which one runs; the others stay in an initial state. The state spaces add up
instead of multiplying, and each part is under its own fairness. A property that
several named invariants make up is their conjunction, each of them with a
comment of its own in the module.

| Run | Shows |
|---|---|
| `loop_one_cron` | One cron, every mode, edits, backoff reports, forward jumps, full channel, no deletes: no tick twice (`NoDoubleFire`); types, backoff floor and no outdated node fired (`EntriesAreSound`). |
| `loop_two_crons` | Two crons in one heap, one deleted and installed again: `NoLiveEntryForgotten`, `NoTickLost`, and under fairness `DueIsServed`. Beside it all schedules over a small horizon, all modes, throttles and splits into passes (`CatchupIsExact`). |
| `exec_caps` | Executor and two `run_now` callers race for one slot with every statement but the watchers' poll failing; in a second part edits, toggles, deletions and crashes: `PerCronCap`, `GlobalCap`, `SlotsMatchHolders`. |
| `scheduler_tasks` | Two runs end, time out, are archived or fail at once; reads, inserts, spawns and polls may fail: `RowsFollowRuns`, `ExecutionEnds`. The ordered shutdown: `NoFireLostOnShutdown`, `ShutdownReturns`. |
| `client_requests` | Two clients on one cron with failing statements, expiring tokens and a watcher: `OnlyApprovedRuns`, `TokensAreSingleUse`, `EnabledIsInstalled`. Two reviewers and an agent on one worktree: `ReviewIsExact`. |
| `ipc_stream` | The hub implements `OutputStream` (`DeliversInOrder`), readers and clients are not left waiting (`IpcMovesOn`), frames stay whole and the handshake ends as the version lists say (`ConnectionIsExact`). |
| `attach_stream` | A pump that loses its connection and comes back while the daemon still serves the old one: in order, nothing twice, nothing missing above the cursor a connected attempt asked from (`NothingLostOrRepeated`); `SubscriptionsAreSound`, `InputHasOneOwner`. |
| `lifecycle` | Two concurrent requests, failing git and SQLite, a crash, an agent that commits: `LifecycleInv`, `CommittedWorkKept`, and under fairness `WorktreesAreSwept`. |
| `daemon` | Two starts and a client race for the socket (`NoTakeover`, `FailedSpawnIsGone`); the shutdown with its sessions (`NoSurvivor`); files across a power cut (`NothingStoredIsLost`); installers (`CommandsKeepTheirWord`); backend health (`HealthReachesClients`); starting and stopping end (`StartAndStopEnd`). |
| `tui` | Source thread and cache (`CacheIsTrusted`, `SidebarCatchesUp`), sidebar and dialogs (`HighlightIsTheTarget`), pane and pump (`PaneFollowsPump`), crons tab (`CronsTabIsTrue`), config file (`ConfigIsShared`), status dot (`DotFollowsDaemon`). |

Two runs find what a comment says violated by what the code does (quoted under
`findings`):

| Run | Shows |
|---|---|
| `services_boot` | `start` installs all crons before it spawns the only receiver of fires. Backlogs that overfill the channel (three replay crons with 100 missed fires each, for 256 places) block it for ever. |
| `control_pause_lost` | An edit that read `enabled` before an auto-pause writes it back after it. |

### Refinement

`OutputHub` has `Stream == INSTANCE OutputStream WITH ...`. The mapping drops the
ring, the queues, budgets and parking: what is left is the last number written and,
per reader, whether its stream is live, cut or done, the number up to which it was
told (of output or of a gap) and, once cut, the number up to which it still delivers.
TLC checks the abstract specification as a property (`DeliversInOrder`).

### Exceptions that properties state

Some properties hold with an exception that the code really has, and say so:
`NoTakeover` (a start that was past its probe when the other bound),
`RowsFollowRuns` (a timeout, a failed poll), `ReviewIsExact` (it is about text: not
about intent-to-add entries, nor a file changed between the read and the removal of
an untracked one), `NothingLostOrRepeated` (chunks below the cursor of a reconnect),
`InputHasOneOwner` (a reader that waits for a writer task nobody woke keeps it),
`LifecycleInv` (a request let in between a session's row and its registration;
orphans of a crash), `CommittedWorkKept` (the sweep after a TTL),
`NothingStoredIsLost` (a power cut that takes the whole spill file),
`PaneFollowsPump` (events drained under a modal, a row re-entered before the pump was
dropped), `ConfigIsShared` (a named file that is missing; an edit under a save; a read
error under a save; a theme that is gone), `HealthReachesClients` (a ring that
overflowed; and it says what was sent, not in which order).

### Bounds

The caps of the code are scaled down so that they are hit: `MAX_CATCHUP` and
`COUNT_CAP` lie below the horizon, so truncation and a saturated count happen;
`FireCap` 1 makes every second send block; the ring holds two chunks and a queue
one, so that eviction and gaps happen with three; `BusCapacity` 2 is overrun by
one pulse and two other events; a transcript spills after one chunk; an archive
has a batch of two and a second month. `attach_stream` types a key while one chunk is
about, or none while there are two; `daemon` has many runs beside one chunk, or many
chunks beside one run: what they share is one lock. Quotas are 1 or 2 so that two admitters
compete. Two of everything that races: clients, connections, starts, requests,
reviewers, rows, pumps; one fault, crash or edit at each possible place. A second
session adds nothing to `lifecycle`, whose sessions share only the project.
The rows of the session source are alike, so `tui` starts with the lowest ones open.
`MaxVersion` and `MaxHeap` bound commands, never the loop's own steps. Clock jumps
go forward; `NoDoubleFire` is about clocks that are not set back. Deadlock
checking is off because bounded runs end: clocks, faults and commands run out.

Symmetry is used for run ids, callers, tokens, clients and contents in runs that
check no liveness.

### Fairness

Nothing is assumed of users, agents, children, the network or new requests.

* A Tokio task or a thread is run until it is done: the steps of loop, executor,
  watchers, services, writer and reader tasks, sources and subscribers are weakly
  fair. So are sleeps and deadlines, which end: `TimeOut`, the steps of the
  shutdown sequence, the polls of a starting client.
* Strong fairness stands where a task comes back to a `select!` or a queue:
  the loop's wake and skew arms and its noticing of the shutdown (commands come
  from finitely many clients), the admission lock (Tokio's mutex is FIFO), a health
  pulse that finds the subscriber connected again and again.
* `ExecutionEnds` assumes `max_runtime_s > 0`; with 0 the watcher of an archived
  session polls for ever.
* `WorktreesAreSwept` assumes that git does not fail for ever: a sweep that is
  tried again and again succeeds once.
* `HealthReachesClients`, `SidebarCatchesUp` and `DotFollowsDaemon` are stated for
  histories in which changes stop, which the bounds make all histories.

## Proofs

For every value of the constants, under the `ASSUME`s of the modules and the
hypotheses the table names.

| Theorem | Argument |
|---|---|
| `CatchupStaysExact` | `PassInv`: the outcome of the last pass is that of the gap it was given. Lemmas: the walk lists the instants of the gap, the throttle keeps exactly those its declarative reading keeps, the coalesced event stands for the whole gap. |
| `NoEntryForgotten` (loop) | The table holds entries and the heap is a bag (`TableInv`), and the entry a firing pass popped exists until its fires are sent (`TaskInv`). Lemmas on bags say what a push, a lazy cleaning and a pop keep. |
| `EntriesStayFloored` | `LoopTypes`: the types of every pass, queue and history. `Rearms`: each of the four places that arm an entry uses `next_eligible_fire`. |
| `EntriesStaySound`, if nothing is deleted | `NodesInv`: a node has no version newer than its entry, and a node of the current version has the entry's time. With deletes it is false: see `heap.rs:230` below. |
| `NothingFiresTwice`, if nothing is deleted and the clock is not set back | `OnceInv`: a watermark is never ahead of the clock (`PastInv`), the entry is armed behind it (`AheadInv`), and what waits to be sent (`OutboxInv`) or was sent (`HandledInv`) since the installation lies at or before it. |
| `NothingIsLost`, if `Undisturbed` | `LostInv`: a tick between the installation's watermark and the current one was sent or waits to be (`CoverInv`), and an entry is armed no later than the first tick behind its watermark (`WaitsInv`). `Undisturbed` takes away what really loses ticks: a clock that jumps, a backoff report and a gap too large for one catch-up. |
| `ExecutorTypes`, `PerCronCapHolds`, `GlobalCapHolds` | The quota is not inductive. `LockInv`: an admitter between gate and release holds the lock. `RoomInv`: one that passed the gate and has not inserted yet leaves room for one more row. Only `CreateRun` adds rows in flight. |
| `SlotsAreHeld` | A counter equals the number of admitters plus the number of watchers at the places that hold it (`GlobalSlots`, `CronSlots`), and each action moves at most one holder. |
| `RowsEndWithSessions`, a part of `RowsFollowRuns` | `LiveInv`: a live session has a row that is running or has one of the two verdicts a live session can get, timed out or (where a poll may fail) missing, and a watcher that settles the row of a live session does so with one of them. |
| `RowsFollow`, if finishing, counting and pausing do not fail, no user edits crons and the daemon is not restarted | `OwnedInv`: a row in flight belongs to the admission that inserted it or to a watcher that has not written it yet. `KeepsPause`: what a step has to leave alone for a counter at the threshold to stay answered. |
| `ServicesTypes`, `ShutdownLosesNoFire` | `ShutdownOrder`: the executor is told to stop only once the loop has stopped, and is gone only with an empty channel. |
| `ControlTypes`, `ApprovedContentOnly`, `TokensRedeemedOnce` | `LockInv`: a request past its first step holds the lock. `TokenInv`: a pending token was never redeemed. `ApprovalInv`: what a request is about to write enabled is approved. |
| `EnabledCronsAreInstalled` | `InstalledInv`: an enabled row without its entry has a request that is about to install it. `WrittenInv`: what that request installs is what the row says. |
| `HubImplementsStream` | A refinement. `RingInv`: the ring is a run of numbers that ends at the last chunk. `ReaderInv`: queue, replay and parked gap of a handle continue what its reader was told of. Then each step of the hub is one of `OutputStream` or a stutter. |
| `InputIsOwned` | `OwnerInv`: a subscription belongs to one connection, in its record, its drain task or the hands of its reader (`OwnersInv`); a connection attaches once and before anything else (`AttachesOnce`); who writes is the holder (`HolderInv`). |
| `TerminalMissesNothing` | `ShowsInv`: a drain task has the last event it received in hand (`HandsInv`); wire, stash and screen of an attempt carry rising numbers that continue each other (`OrderInv`); an attempt asks from its cursor, and while its link is up, what its drain has passed above that cursor is on one of them (`LossInv`). |
| `SubscriptionsStaySound` | `AccountInv`: a subscription is charged the sum of what is queued and not acknowledged. |
| `LifecycleFits`, `WorkIsKept` | `OwnInv`: an id that is being made is its request's alone, one request spawns a session, and nothing starts one that is being archived, unless it began early. `FitInv`, by session: where a child runs, which row goes with a place of its requests and its pump (`RunFits`, `RowFits`), and which places leave a worktree alone (`TreeFits`). The second theorem is an action property: only the sweep of an expired row makes committed work unreachable. |
| `SocketsAreNotTakenOver` | `ProbedBefore`: whoever is past its probe while a daemon listens was past it when that daemon bound, because a probe that finds a listener ends the start. `NothingLostYet`: who does not listen has lost nothing. |
| `FailedSpawnsAreGone` | `ClientShape`: no child before the spawn, and a failure is a last word; a process that exited stays so. |
| `ShutdownLeavesNobody` | `PresentWereStarted`: whoever was signalled has been started, so an empty registry means that it is gone. |
| `StorageKeeps` | `ArchiveInv`: a run whose row the archiver deletes is in a synced file. `ChunkInv`: what is acknowledged and was not taken with the spill file is in the committed table or synced in the spill, in order and before the next number. |
| `CommandsDeliver` | `CommandInv`: the lines a command has done so far leave the service as they say, and each of the verbs keeps what its predecessors did, platform by platform. |
| `CacheStaysTrusted` | `ViewInv`: a list the UI has not been told to draw again is that of the cache. `ReportedInv`: an answered create is in the cache or was removed later. `OrderInv`: commands rise from the keys to the daemon. |
| `PaneStaysWithPump` | `RuntimeInv`, `ShownInv`: runtime, pump and pane name the same session. `LastWordInv`, `HeardInv`: a pump that has ended leaves its last event in the channel until the pane has acted on it. |
| `CronsTabStaysTrue` | `DraftInv`: a draft is enabled only if its cron was confirmed. Lemmas on rows say what replacing, enabling and deleting by position keep. |
| `HighlightStaysTheTarget` | `ListIsSound`: between two frames the terminal shows the selection, and a dialog keeps the row it was opened on. Lemmas: the list is headers and rows, each at one position, so looking up an item that is listed finds it. |
| `ConfigStaysShared` | `SaveInv`: while nobody edits, a save that could read the file has it as it was read, and what it renames is that document. `ThemeInv`: theme and document of a save are what the user settled on. That check and show take what start takes is a lemma about the chain of paths. |
| `ConnectionStaysExact` | `Flows`: what arrived and what is still to go out are the frames of the messages that were encoded and not yet decoded, in order, and all of them until the connection breaks. `TurnsAreKept`: whose turn it is tells what both have sent. |
| `ReviewStaysExact` | `JobOk`: a mutation in hand holds the lock of the worktree, has counted each id at most once, and selects from one file what git would take, until the agent meddles. |

The assumptions on the constants are about the model's values, such as "`None` is
not an entry", and about their types: finite sets of crons and
of sidebar rows, backoff states that are ones, throttles, caps, rows and hunk places
that are numbers. `"error"` is not a protocol version a client offers.

What recursive functions compute (the walk, the throttle, powers of the backoff,
sums of lengths, concatenations) is proved without induction theorems: a set of
numbers with a member has a least one, so a set that contains 0 and with each
number the next contains all (`LeastNat`, `SetInduction`). The function is shown to
exist up to each bound before it is unfolded.

Only model-checked: liveness, which this prover has no rules for (`DueIsServed`,
`ExecutionEnds`, `ShutdownReturns`, `IpcMovesOn`, `WorktreesAreSwept`,
`HealthReachesClients`, `StartAndStopEnd`, `SidebarCatchesUp`, `DotFollowsDaemon`).

Neither proved nor model-checked is what both the hypotheses and the runs take away,
because it is false of the code: `EntriesAreSound` and `NoDoubleFire` with deletes
(the run `loop_one_cron` has none), `NoTickLost` with backoff reports and clock jumps
(`loop_two_crons` has none, but has deletes), `RowsFollowRuns` where a statement that
finishes, counts or pauses fails, or with edits and restarts (`scheduler_tasks` has
none; the caps and `SlotsMatchHolders` are checked with all of them in `exec_caps`).

## Seen while modelling, not kept as runs

Scheduler:

* `heap.rs:230` drops the version with the entry: an id deleted and installed again
  restarts at version 1, and an old node of that version fires at the old time.
* `recompute_all_after_skew` reads the clock before and after its sends; a tick in
  between is lost. So is a due fire that a backoff report re-anchors.
* A truncated pass keeps the earliest fires; `catchup.rs:82` and `scheduler.rs:693`
  say older ones are dropped.
* The watermark is written after the run was spawned (la-daemon `scheduler.rs:741`);
  a crash in between runs the tick again. Nothing finishes the runs rows of a dead
  daemon (`repos.rs:520`), so they count against `max_concurrent_runs` for good.
* `dispatcher.rs:1786` carries counter and watermark read before the control lock
  into the write. `finish_run_with_error` counts no failure. One poll that fails ends
  the row of a live session as `session_missing` (la-daemon `scheduler.rs:1086`), which
  frees its slot. An `upsert` whose read-back fails (`repos.rs:253`) reports an error
  for a row that was written and is not installed. No code writes
  `cost_usd_est`. Auto-pause leaves the heap entry. Re-enabling a cron installs it
  without its backoff mirror.

Streams and connections:

* `attach_pump.rs:292` takes the snapshot's floor as `last_seq` before the replayed
  chunks have arrived; a connection lost in between skips them silently, although
  line 242 says that the resume continues where it left off. `attempts` is never reset. Write errors are ignored, although a racing
  reconnect comes back without the input.
* `state.shutdown.notify_waiters()` is lost while `run_writer` is outside its
  select; the reader then waits for the writer and keeps the input for good, as
  `InputHasOneOwner` allows. The writer's
  `active` map is not cleared, so a second attach on a connection is not drained.
  An attach that races `hub.close` gets a subscription that never ends.
  `server_handshake` has no timeout and does not observe the shutdown.
* Hub: a late drop parks a resumed subscription; an ack of an old handle admits too
  much; one gap per dropped chunk where a comment says they coalesce; none for chunks
  evicted before a subscription.
* A snapshot of `daemon.health` that was read before a pulse and is sent after it
  (`dispatcher.rs:692`) leaves the client behind until the next one. A comment says "1 Hz pulse", the interval is 60 s.

Sessions and worktrees:

* A failed PTY spawn leaves a `starting` row until the next start; if its rollback
  fails too, the row's columns are cleared and the worktree is leaked. A crash
  between worktree and row leaks it as well.
* A failed cleanup at archive time keeps the columns, and the sweep's force removes
  the branch with committed work. The sweep takes a storage error for "project gone".
  `delete` removes neither worktree, branch nor spill file. Archiving again resets
  `archived_at`. Pid reuse keeps dead rows active. A timeout of git does not kill it.
* Diff engine: an untracked discard reads and then removes; an error in the middle
  returns an error with earlier files applied and no `worktree.changed`; a commit
  takes whatever the agent has staged. Staging marks every untracked file it passes
  with `git add --intent-to-add` (`diff.rs:563`). A discard deletes an untracked file
  that changed since it was read, which the comment at `diff.rs:530` rules out, and
  reports one it could not delete as applied.

Daemon and files:

* `DaemonHandle::shutdown` is lost if the accept loop is not parked. Two starts that
  overlap both pass the probe. The listener's drop stats and then unlinks. A full
  backlog counts as "not running". Sessions that the scheduler starts after the kill
  phase are not signalled. `detect_local_service_unit` looks in `$HOME/.config`,
  `SystemdPaths` in `XDG_CONFIG_HOME`.
* A failed query counts as "no", so an uninstall can succeed and leave the service.
  Two installs share one temporary file.
* The spill file is synced, its directory never is (`repos.rs:1620`): a power cut soon
  after the switch from table to file loses the transcript, acknowledged chunks
  included. A spill line that lost its newline is glued to the next. A torn zstd frame makes
  later frames unreadable although their rows are deleted. With `synchronous=NORMAL`
  SQLite may give back commits after a power cut.
* `config show` and `check` treat a named file that is missing in other ways than
  start does. A save to a new XDG path hides the `[daemon]` section of the next file.
  An edit between a save's read and its rename is lost (`ui_prefs.rs:201`). A save
  takes any read error for an empty document (line 200) and replaces the user's text
  with the preferences alone, which lines 26-29 and 195-198 rule out. A UI that
  holds a removed theme writes it, and `lad start` refuses it.

UI:

* After an unsolicited close, Enter on the same row before the next reconcile keeps a
  dead pump, and the pane stays "connecting" (`app.rs:1520` says otherwise). Attach
  events under a modal are dropped. A late event overrides "detached".
* A refused command drops the rest of its batch; a create that times out still
  creates. A new cron's temporary id may collide. `DiffView` and `Composer` are not
  wired into the app.

## Not modelled

Expression parsing, time zones and the DST rule (a schedule is a set of instants);
metrics, tracing, diagnostics, doctor; hash collisions of fingerprints and hunk ids;
the 24 h window of the daily quota (a run lies within it); load average (an input);
clocks that are set back; migrations, backup and `retry_busy`; signal, resize and the
read-only handlers, which change nothing the daemon keeps; renames, binary files and
truncation of diffs; the named pipe of Windows; two UIs on one config file; text
fields, mouse, rendering, terminal emulation. Adapters, PTY and protocol types are
I/O or data; what they can do wrong is an input of the models.

## Plan

1. `EntriesAreSound` and `NoDoubleFire` with deletes, restated for the versions that
   restart, and `RowsFollowRuns` with one failing statement.
2. Abstract specifications for the lazy heap (a map of next fires) and for the
   executor (a slot counter).
3. The loop composed with the executor; `RpcSource` composed with the sidebar.
4. The DST take-first rule of `cron_spec.rs`.

## Running it

    tlc -workers 2 -config daemon.cfg MCDaemon
    tlapm SchedulerLoop_proofs.tla

The longest runs, `attach_stream` (4.8 million states), `daemon` and `tui`, take about
two minutes with two workers; `Stream_proofs` takes about five.
